---- MODULE Spec2Model ----
(***************************************************************************)
(* rogue-day backend: the run / task / extraction state machine of         *)
(* app/services/run_service.py and app/services/task_service.py, the      *)
(* preset application of app/api/endpoints/presets.py and the game rules  *)
(* of app/core/game_config.py, over the tables of alembic/versions.       *)
(*                                                                         *)
(* A database state is (runs, tasks, task_seq, extractions, users,        *)
(* templates); `today' is the calendar day of the server clock.  A        *)
(* handler is an operator from the database it reads to the database it   *)
(* leaves and what it returns: "ok" or the message of the error raised.   *)
(***************************************************************************)
EXTENDS Integers, Sequences, FiniteSets, TLC

VARIABLES db, today, sessions, base

vars == <<db, today, sessions, base>>

---------------------------------------------------------------------------
(* Bounds of the model *)

MaxRuns == 2
MaxTasks == 2
MaxHeavyTasks == 2
MaxDuration == 13
MaxStreakRuns == 4
MaxDay == 3
MaxXpDuration == 36
MaxFaultTasks == 2

(* Callers and request payloads (TaskCreate: tier and duration are any int) *)
Users == {1, 2}
TaskInputs ==
    { [tier |-> 1, duration |-> 2, use_timer |-> FALSE],
      [tier |-> 3, duration |-> 25, use_timer |-> TRUE],
      [tier |-> 4, duration |-> 10, use_timer |-> TRUE] }
HeavyInputs ==
    { [tier |-> 2, duration |-> 10, use_timer |-> TRUE],
      [tier |-> 3, duration |-> 25, use_timer |-> TRUE] }

---------------------------------------------------------------------------
(* app/core/game_config.py *)

BASE_MAX_ENERGY == 50

TIER_CONFIG ==
    [t \in {1, 2, 3} |->
        CASE t = 1 -> [energy_cost |-> 0, base_xp |-> 15, duration_min |-> 2, can_fail |-> FALSE]
          [] t = 2 -> [energy_cost |-> 5, base_xp |-> 65, duration_min |-> 10, can_fail |-> TRUE]
          [] t = 3 -> [energy_cost |-> 15, base_xp |-> 175, duration_min |-> 25, can_fail |-> TRUE]]

Abs(n) == IF n >= 0 THEN n ELSE -n
Sign(n) == IF n > 0 THEN 1 ELSE IF n < 0 THEN -1 ELSE 0
Min(a, b) == IF a <= b THEN a ELSE b
Max(a, b) == IF a >= b THEN a ELSE b

(* Python's int(): truncation toward zero of the quotient n / d, d > 0 *)
TruncDiv(n, d) == Sign(n) * (Abs(n) \div d)

(* The product is evaluated in IEEE-754 doubles, left to right:            *)
(* fl(fl(base_xp * fl(duration / duration_min)) * timer_multiplier).      *)
(* For |duration| <= 200 it lies in the unit interval of the exact         *)
(* quotient except here, where the exact value is an integer and the      *)
(* double falls just below it (175 * fl(35 / 25) = 244.99999999999997).   *)
FloatShort(tier, duration, use_timer) ==
    /\ tier = 3
    /\ use_timer
    /\ Abs(duration) \in {35, 57, 69, 70, 113, 114, 115, 138, 139, 140}

(* Variant: the timer costs a fifth instead of its absence *)
calculate_xp_TimerPenalty(tier, duration, use_timer) ==
    IF tier \notin DOMAIN TIER_CONFIG THEN 0
    ELSE TruncDiv(TIER_CONFIG[tier].base_xp * duration * (IF use_timer THEN 4 ELSE 5),
                  TIER_CONFIG[tier].duration_min * 5)

calculate_xp(tier, duration, use_timer) ==
    IF tier \notin DOMAIN TIER_CONFIG THEN 0
    ELSE LET config == TIER_CONFIG[tier]
             exact == TruncDiv(config.base_xp * duration * (IF use_timer THEN 5 ELSE 4),
                               config.duration_min * 5)
         IN  IF FloatShort(tier, duration, use_timer)
             THEN exact - Sign(duration)
             ELSE exact

---------------------------------------------------------------------------
(* Rows: alembic/versions/001_initial.py, 002_extraction_snapshot_fields.py *)
(* The columns are those of the migrations, which the services read and   *)
(* write (runs.penalty_xp, the snapshot columns of extractions).          *)
(* app/models.py declares neither; with its classes alone every read of   *)
(* run.penalty_xp would raise and no extraction could complete.           *)

None == -1

NewUser ==
    [total_xp |-> 0, total_extractions |-> 0, total_tasks_completed |-> 0,
     total_focus_minutes |-> 0, current_streak |-> 0, best_streak |-> 0,
     last_run_at |-> None]

(* ix_runs_user_status is a plain index: no constraint makes (user_id,    *)
(* status = active) unique, so the insert of a run never conflicts.       *)
ActiveRunUnique == FALSE

Put(f, k, v) == [x \in DOMAIN f \cup {k} |-> IF x = k THEN v ELSE f[x]]
Drop(f, k) == [x \in DOMAIN f \ {k} |-> f[x]]

TasksOf(D, r) == {t \in DOMAIN D.tasks : D.tasks[t].run_id = r}
ActiveRunsOf(D, u) ==
    {r \in DOMAIN D.runs : D.runs[r].user_id = u /\ D.runs[r].status = "active"}

(* What a handler returns: the database it leaves, "ok" or the message of *)
(* the error raised, and the response body where a claim reads it.        *)
Reply(D, result) == [db |-> D, result |-> result, body |-> <<>>]
ReplyWith(D, result, body) == [db |-> D, result |-> result, body |-> body]

---------------------------------------------------------------------------
(* app/services/task_service.py *)

(* scalar_one_or_none() over the user's Active runs *)
_get_active_run(D, u) == ActiveRunsOf(D, u)

(* Variant: the task is looked up by its id alone *)
_get_user_task_AnyOwner(D, u, task_id) == {t \in DOMAIN D.tasks : t = task_id}

(* select(Task).join(Run).where(Task.id == task_id, Run.user_id == user.id) *)
_get_user_task(D, u, task_id) ==
    {t \in DOMAIN D.tasks : t = task_id /\ D.runs[D.tasks[t].run_id].user_id = u}

(* Variants of the energy check: none at all, and one that also refuses    *)
(* a cost equal to the energy left.                                       *)
EnoughEnergy_Unchecked(run, config) == TRUE
EnoughEnergy_Strict(run, config) == run.focus_energy > config.energy_cost
EnoughEnergy(run, config) == ~(run.focus_energy < config.energy_cost)
(* Variant: creation that charges nothing *)
SpendEnergy_Free(run, config) == run.focus_energy
SpendEnergy(run, config) == run.focus_energy - config.energy_cost
(* Variant: completion and deletion that refund nothing *)
RefundEnergy_Kept(run, task) == run.focus_energy
(* Variant: a refund that fills the run's energy up *)
RefundEnergy_Full(run, task) == run.max_energy
RefundEnergy(run, task) == Min(run.max_energy, run.focus_energy + task.energy_cost)
(* Variant: a complete that does not look at the task's status *)
CanComplete_Any(task) == TRUE
(* Variant: only a started task can be completed *)
CanComplete_StartedOnly(task) == task.status = "active"
CanComplete(task) == task.status \in {"pending", "active"}
(* Variant: completion that does not look at the run's status *)
RunIsActive_Unchecked(run) == TRUE
RunIsActive(run) == run.status = "active"
(* Variant: a fail that does not look at the tier's can_fail flag *)
CanFail_Any(task) == TRUE
CanFail(task) == task.tier \in DOMAIN TIER_CONFIG /\ TIER_CONFIG[task.tier].can_fail
(* Variant: a start that does not look at the task's status *)
CanStart_Any(task) == TRUE
CanStart(task) == task.status = "pending"
(* Variant: a delete that also takes a task already started *)
CanDelete_Unfinished(task) == task.status \in {"pending", "active"}
CanDelete(task) == task.status = "pending"

(* T3 penalty: int(run.daily_xp * 0.1), then max(0, daily_xp - penalty) *)
(* Variant: 10% of the XP earned before any penalty *)
Penalty_OfEarned(run) == TruncDiv(run.daily_xp + run.penalty_xp, 10)
Penalty(run) == TruncDiv(run.daily_xp, 10)
ApplyPenalty(run) ==
    [run EXCEPT !.daily_xp = Max(0, run.daily_xp - Penalty(run)),
                !.penalty_xp = run.penalty_xp + Penalty(run)]

NewTask(r, data, config) ==
    [run_id |-> r, tier |-> data.tier, duration |-> data.duration,
     status |-> "pending",
     xp_earned |-> calculate_xp(data.tier, data.duration, data.use_timer),
     energy_cost |-> config.energy_cost, use_timer |-> data.use_timer]

create(D, u, task_data) ==
    LET found == _get_active_run(D, u) IN
    IF Cardinality(found) > 1 THEN Reply(D, "MultipleResultsFound")
    ELSE IF found = {} THEN Reply(D, "No active run")
    ELSE IF task_data.tier \notin DOMAIN TIER_CONFIG THEN Reply(D, "Invalid tier")
    ELSE LET r == CHOOSE x \in found : TRUE
             run == D.runs[r]
             config == TIER_CONFIG[task_data.tier]
             id == D.task_seq + 1
         IN  IF ~EnoughEnergy(run, config) THEN Reply(D, "Not enough energy")
             ELSE Reply([D EXCEPT !.runs[r].focus_energy = SpendEnergy(run, config),
                                  !.tasks = Put(@, id, NewTask(r, task_data, config)),
                                  !.task_seq = id],
                        "ok")

start(D, u, task_id) ==
    LET found == _get_user_task(D, u, task_id) IN
    IF found = {} THEN Reply(D, "Task not found")
    ELSE IF ~CanStart(D.tasks[task_id]) THEN Reply(D, "Task already started")
    ELSE Reply([D EXCEPT !.tasks[task_id].status = "active"], "ok")

complete(D, u, task_id) ==
    LET found == _get_user_task(D, u, task_id) IN
    IF found = {} THEN Reply(D, "Task not found")
    ELSE LET task == D.tasks[task_id]
             r == task.run_id
             run == D.runs[r]
         IN  IF ~CanComplete(task) THEN Reply(D, "Task already finished")
             ELSE IF ~RunIsActive(run) THEN Reply(D, "Run is not active")
             ELSE Reply([D EXCEPT !.runs[r].daily_xp = @ + task.xp_earned,
                                  !.runs[r].focus_energy = RefundEnergy(run, task),
                                  !.runs[r].total_focus_minutes = @ + task.duration,
                                  !.tasks[task_id].status = "completed"],
                        "ok")

fail(D, u, task_id) ==
    LET found == _get_user_task(D, u, task_id) IN
    IF found = {} THEN Reply(D, "Task not found")
    ELSE LET task == D.tasks[task_id]
             r == task.run_id
             run == D.runs[r]
         IN  IF ~CanFail(task) THEN Reply(D, "This task cannot fail")
             ELSE IF task.status # "active" THEN Reply(D, "Task not active")
             ELSE Reply([D EXCEPT !.runs[r] = IF task.tier = 3 THEN ApplyPenalty(run) ELSE run,
                                  !.tasks[task_id].status = "failed"],
                        "ok")

delete(D, u, task_id) ==
    LET found == _get_user_task(D, u, task_id) IN
    IF found = {} THEN Reply(D, "Task not found")
    ELSE LET task == D.tasks[task_id]
             r == task.run_id
             run == D.runs[r]
         IN  IF ~CanDelete(task) THEN Reply(D, "Can only delete pending tasks")
             ELSE Reply([D EXCEPT !.runs[r].focus_energy = RefundEnergy(run, task),
                                  !.tasks = Drop(@, task_id)],
                        "ok")

---------------------------------------------------------------------------
(* app/services/run_service.py *)

(* Variant: a run that starts with no energy to spend *)
NewRun_Drained(u) ==
    [user_id |-> u, status |-> "active", daily_xp |-> 0,
     focus_energy |-> 0, max_energy |-> BASE_MAX_ENERGY,
     total_focus_minutes |-> 0, penalty_xp |-> 0, extracted_at |-> None]

NewRun(u) ==
    [user_id |-> u, status |-> "active", daily_xp |-> 0,
     focus_energy |-> BASE_MAX_ENERGY, max_energy |-> BASE_MAX_ENERGY,
     total_focus_minutes |-> 0, penalty_xp |-> 0, extracted_at |-> None]

(* Variant: a start that any run of the user blocks, Extracted or not *)
start_new_AnyRunBlocks(D, u) ==
    LET existing == {r \in DOMAIN D.runs : D.runs[r].user_id = u} IN
    IF existing # {} THEN Reply(D, "Active run already exists")
    ELSE Reply([D EXCEPT !.runs = Append(@, NewRun(u))], "ok")

(* Variant: starting a run puts the user's current streak back to 0 *)
start_new_ResetsStreak(D, u) ==
    LET existing == ActiveRunsOf(D, u) IN
    IF Cardinality(existing) > 1 THEN Reply(D, "MultipleResultsFound")
    ELSE IF existing # {} THEN Reply(D, "Active run already exists")
    ELSE Reply([D EXCEPT !.runs = Append(@, NewRun(u)),
                         !.users[u].current_streak = 0], "ok")

start_new(D, u) ==
    LET existing == ActiveRunsOf(D, u) IN
    IF Cardinality(existing) > 1 THEN Reply(D, "MultipleResultsFound")
    ELSE IF existing # {} THEN Reply(D, "Active run already exists")
    ELSE Reply([D EXCEPT !.runs = Append(@, NewRun(u))], "ok")

(* The orders in which run.tasks can list the ids of S: the relationship  *)
(* states no order_by, so the order is the storage's choice.              *)
RECURSIVE Orders(_)
Orders(S) ==
    IF S = {} THEN {<<>>}
    ELSE UNION {{<<x>> \o o : o \in Orders(S \ {x})} : x \in S}

RECURSIVE Ascending(_)
Ascending(S) ==
    IF S = {} THEN <<>>
    ELSE LET m == CHOOSE x \in S : \A y \in S : x <= y
         IN  <<m>> \o Ascending(S \ {m})

ActiveTasks(D, r) == {t \in TasksOf(D, r) : D.tasks[t].status = "active"}

(* Variant: a swept task of another tier costs the run one XP *)
RECURSIVE _auto_fail_active_tasks_FlatCost(_, _, _)
_auto_fail_active_tasks_FlatCost(D, r, order) ==
    IF order = <<>> THEN D
    ELSE LET t == Head(order)
             D1 == [D EXCEPT !.tasks[t].status = "failed",
                             !.runs[r] = IF D.tasks[t].tier = 3
                                         THEN ApplyPenalty(D.runs[r])
                                         ELSE [D.runs[r] EXCEPT
                                                  !.daily_xp = Max(0, @ - 1),
                                                  !.penalty_xp = @ + 1]]
         IN  _auto_fail_active_tasks_FlatCost(D1, r, Tail(order))

RECURSIVE _auto_fail_active_tasks(_, _, _)
_auto_fail_active_tasks(D, r, order) ==
    IF order = <<>> THEN D
    ELSE LET t == Head(order)
             D1 == [D EXCEPT !.tasks[t].status = "failed",
                             !.runs[r] = IF D.tasks[t].tier = 3
                                         THEN ApplyPenalty(D.runs[r])
                                         ELSE D.runs[r]]
         IN  _auto_fail_active_tasks(D1, r, Tail(order))

Count_All(D, S, tier) == Cardinality(S)

Count(D, S, tier) == Cardinality({t \in S : D.tasks[t].tier = tier})

_create_extraction(D, u, r, completed, failed) ==
    LET run == D.runs[r] IN
    [user_id |-> u, run_id |-> r,
     final_xp |-> run.daily_xp,
     xp_before_penalties |-> run.daily_xp + run.penalty_xp,
     penalty_xp |-> run.penalty_xp,
     tasks_completed |-> Cardinality(completed),
     tasks_failed |-> Cardinality(failed),
     tasks_total |-> Cardinality(TasksOf(D, r)),
     total_focus_minutes |-> run.total_focus_minutes,
     t1_completed |-> Count(D, completed, 1),
     t2_completed |-> Count(D, completed, 2),
     t3_completed |-> Count(D, completed, 3),
     t1_failed |-> Count(D, failed, 1),
     t2_failed |-> Count(D, failed, 2),
     t3_failed |-> Count(D, failed, 3),
     completed_with_timer |-> Cardinality({t \in completed : D.tasks[t].use_timer}),
     completed_without_timer |-> Cardinality({t \in completed : ~D.tasks[t].use_timer})]

(* Variant: only an extraction made the day before continues the streak *)
NextStreak_YesterdayOnly(user, day) ==
    IF user.last_run_at # None
    THEN IF user.last_run_at = day - 1 THEN user.current_streak + 1 ELSE 1
    ELSE 1

NextStreak(user, day) ==
    IF user.last_run_at # None
    THEN IF user.last_run_at >= day - 1 THEN user.current_streak + 1 ELSE 1
    ELSE 1

(* Variant: best_streak follows current_streak instead of keeping its maximum *)
_update_user_stats_BestFollows(user, run, tasks_completed, day) ==
    LET streak == NextStreak(user, day) IN
    [user EXCEPT !.total_xp = @ + run.daily_xp,
                 !.total_extractions = @ + 1,
                 !.total_tasks_completed = @ + tasks_completed,
                 !.total_focus_minutes = @ + run.total_focus_minutes,
                 !.current_streak = streak,
                 !.best_streak = streak,
                 !.last_run_at = day]

_update_user_stats_Gross(user, run, tasks_completed, day) ==
    LET streak == NextStreak(user, day) IN
    [user EXCEPT !.total_xp = @ + run.daily_xp + run.penalty_xp,
                 !.total_extractions = @ + 1,
                 !.total_tasks_completed = @ + tasks_completed,
                 !.total_focus_minutes = @ + run.total_focus_minutes,
                 !.current_streak = streak,
                 !.best_streak = Max(@, streak),
                 !.last_run_at = day]

_update_user_stats(user, run, tasks_completed, day) ==
    LET streak == NextStreak(user, day) IN
    [user EXCEPT !.total_xp = @ + run.daily_xp,
                 !.total_extractions = @ + 1,
                 !.total_tasks_completed = @ + tasks_completed,
                 !.total_focus_minutes = @ + run.total_focus_minutes,
                 !.current_streak = streak,
                 !.best_streak = Max(@, streak),
                 !.last_run_at = day]

OwnsRun_AnyUser(D, u, run_id) == run_id \in DOMAIN D.runs

(* select(Run).where(Run.id == run_id, Run.user_id == self.user.id) finds a row *)
OwnsRun(D, u, run_id) == run_id \in DOMAIN D.runs /\ D.runs[run_id].user_id = u

(* extract with the summary and the aggregates taken before the sweep *)
extract_in_order_SummaryFirst(D, u, run_id, day, order) ==
    IF ~OwnsRun(D, u, run_id) THEN Reply(D, "Run not found")
    ELSE IF ~RunIsActive(D.runs[run_id]) THEN Reply(D, "Run already extracted")
    ELSE LET D1 == _auto_fail_active_tasks(D, run_id, order)
             completed == {t \in TasksOf(D, run_id) : D.tasks[t].status = "completed"}
             failed == {t \in TasksOf(D, run_id) : D.tasks[t].status = "failed"}
             extraction == _create_extraction(D, u, run_id, completed, failed)
         IN  Reply([D1 EXCEPT !.extractions = Append(@, extraction),
                              !.runs[run_id].status = "extracted",
                              !.runs[run_id].extracted_at = day,
                              !.users[u] = _update_user_stats(D1.users[u], D1.runs[run_id],
                                                              Cardinality(completed), day)],
                   "ok")

extract_in_order(D, u, run_id, day, order) ==
    IF ~OwnsRun(D, u, run_id)
    THEN Reply(D, "Run not found")
    ELSE IF ~RunIsActive(D.runs[run_id]) THEN Reply(D, "Run already extracted")
    ELSE LET D1 == _auto_fail_active_tasks(D, run_id, order)
             completed == {t \in TasksOf(D1, run_id) : D1.tasks[t].status = "completed"}
             failed == {t \in TasksOf(D1, run_id) : D1.tasks[t].status = "failed"}
             extraction == _create_extraction(D1, u, run_id, completed, failed)
         IN  Reply([D1 EXCEPT !.extractions = Append(@, extraction),
                              !.runs[run_id].status = "extracted",
                              !.runs[run_id].extracted_at = day,
                              !.users[u] = _update_user_stats(D1.users[u], D1.runs[run_id],
                                                              Cardinality(completed), day)],
                   "ok")

extract(D, u, run_id, day) ==
    extract_in_order(D, u, run_id, day,
                     IF run_id \in DOMAIN D.runs THEN Ascending(ActiveTasks(D, run_id)) ELSE <<>>)

---------------------------------------------------------------------------
(* app/api/endpoints/tasks.py: the handlers the router mounts under       *)
(* /tasks.  They do not call TaskService; they carry their own tier table *)
(* and their own copy of each operation.                                   *)

TASKS_TIER_CONFIG ==
    [t \in {1, 2, 3} |->
        CASE t = 1 -> [energy_cost |-> 0, base_xp |-> 15, can_fail |-> FALSE]
          [] t = 2 -> [energy_cost |-> 5, base_xp |-> 65, can_fail |-> TRUE]
          [] t = 3 -> [energy_cost |-> 15, base_xp |-> 175, can_fail |-> TRUE]]

(* int(base_xp * (duration / 5) * timer_multiplier) in doubles: for       *)
(* |duration| <= 40 the exact quotient truncated, except where the double *)
(* falls just below an integer (175 * fl(7 / 5) = 244.99999999999997).    *)
TasksFloatShort(tier, duration, use_timer) ==
    tier = 3 /\ use_timer /\ Abs(duration) \in {7, 14, 23, 28}

tasks_xp_earned(tier, duration, use_timer) ==
    LET exact == TruncDiv(TASKS_TIER_CONFIG[tier].base_xp * duration
                             * (IF use_timer THEN 5 ELSE 4),
                          25)
    IN  IF TasksFloatShort(tier, duration, use_timer) THEN exact - Sign(duration)
        ELSE exact

create_task(D, u, task_data) ==
    LET found == ActiveRunsOf(D, u) IN
    IF Cardinality(found) > 1 THEN Reply(D, "MultipleResultsFound")
    ELSE IF found = {} THEN Reply(D, "No active run")
    ELSE IF task_data.tier \notin DOMAIN TASKS_TIER_CONFIG THEN Reply(D, "Invalid tier")
    ELSE LET r == CHOOSE x \in found : TRUE
             run == D.runs[r]
             config == TASKS_TIER_CONFIG[task_data.tier]
             id == D.task_seq + 1
         IN  IF run.focus_energy < config.energy_cost THEN Reply(D, "Not enough energy")
             ELSE Reply([D EXCEPT !.runs[r].focus_energy = @ - config.energy_cost,
                                  !.tasks = Put(@, id,
                                     [run_id |-> r, tier |-> task_data.tier,
                                      duration |-> task_data.duration,
                                      status |-> "pending",
                                      xp_earned |-> tasks_xp_earned(task_data.tier,
                                                                    task_data.duration,
                                                                    task_data.use_timer),
                                      energy_cost |-> config.energy_cost,
                                      use_timer |-> task_data.use_timer]),
                                  !.task_seq = id],
                        "ok")

start_task(D, u, task_id) ==
    IF _get_user_task(D, u, task_id) = {} THEN Reply(D, "Task not found")
    ELSE IF D.tasks[task_id].status # "pending" THEN Reply(D, "Task already started")
    ELSE Reply([D EXCEPT !.tasks[task_id].status = "active"], "ok")

complete_task(D, u, task_id) ==
    IF _get_user_task(D, u, task_id) = {} THEN Reply(D, "Task not found")
    ELSE LET task == D.tasks[task_id]
             r == task.run_id
             run == D.runs[r]
         IN  IF task.status \notin {"pending", "active"} THEN Reply(D, "Task already finished")
             ELSE Reply([D EXCEPT !.runs[r].daily_xp = @ + task.xp_earned,
                                  !.runs[r].focus_energy =
                                     Min(run.max_energy, run.focus_energy + task.energy_cost),
                                  !.runs[r].total_focus_minutes = @ + task.duration,
                                  !.tasks[task_id].status = "completed"],
                        "ok")

fail_task(D, u, task_id) ==
    IF _get_user_task(D, u, task_id) = {} THEN Reply(D, "Task not found")
    ELSE LET task == D.tasks[task_id]
             r == task.run_id
             run == D.runs[r]
         IN  IF task.tier \notin DOMAIN TASKS_TIER_CONFIG
                \/ ~TASKS_TIER_CONFIG[task.tier].can_fail
             THEN Reply(D, "This task cannot fail")
             ELSE IF task.status # "active" THEN Reply(D, "Task not active")
             ELSE Reply([D EXCEPT !.runs[r].daily_xp =
                                     IF task.tier = 3
                                     THEN Max(0, run.daily_xp - TruncDiv(run.daily_xp, 10))
                                     ELSE run.daily_xp,
                                  !.tasks[task_id].status = "failed"],
                        "ok")

delete_task(D, u, task_id) ==
    IF _get_user_task(D, u, task_id) = {} THEN Reply(D, "Task not found")
    ELSE LET task == D.tasks[task_id]
             r == task.run_id
             run == D.runs[r]
         IN  IF task.status # "pending" THEN Reply(D, "Can only delete pending tasks")
             ELSE Reply([D EXCEPT !.runs[r].focus_energy =
                                     Min(run.max_energy, run.focus_energy + task.energy_cost),
                                  !.tasks = Drop(@, task_id)],
                        "ok")

---------------------------------------------------------------------------
(* app/api/endpoints/runs.py: the handlers the router mounts under /runs. *)
(* They do not call RunService; each carries its own copy of the          *)
(* operation.                                                              *)

start_new_run(D, u) ==
    LET existing == {r \in DOMAIN D.runs : D.runs[r].user_id = u /\ D.runs[r].status = "active"}
    IN  IF Cardinality(existing) > 1 THEN Reply(D, "MultipleResultsFound")
        ELSE IF existing # {} THEN Reply(D, "Active run already exists")
        ELSE Reply([D EXCEPT !.runs =
                       Append(@, [user_id |-> u, daily_xp |-> 0,
                                  focus_energy |-> BASE_MAX_ENERGY,
                                  max_energy |-> BASE_MAX_ENERGY,
                                  total_focus_minutes |-> 0, status |-> "active",
                                  penalty_xp |-> 0, extracted_at |-> None])],
                   "ok")

(* Variant: a sweep that takes the penalty without counting it *)
RECURSIVE extract_run_active_tasks_NoCounter(_, _, _)
extract_run_active_tasks_NoCounter(D, r, order) ==
    IF order = <<>> THEN D
    ELSE LET task == Head(order)
             run == D.runs[r]
             penalty == TruncDiv(run.daily_xp, 10)
             D1 == IF D.tasks[task].tier = 3
                   THEN [D EXCEPT !.tasks[task].status = "failed",
                                  !.runs[r].daily_xp = Max(0, run.daily_xp - penalty)]
                   ELSE [D EXCEPT !.tasks[task].status = "failed"]
         IN  extract_run_active_tasks_NoCounter(D1, r, Tail(order))

(* for task in active_tasks: ... (lines 188-196) *)
RECURSIVE extract_run_active_tasks(_, _, _)
extract_run_active_tasks(D, r, order) ==
    IF order = <<>> THEN D
    ELSE LET task == Head(order)
             run == D.runs[r]
             penalty == TruncDiv(run.daily_xp, 10)
             D1 == IF D.tasks[task].tier = 3
                   THEN [D EXCEPT !.tasks[task].status = "failed",
                                  !.runs[r].daily_xp = Max(0, run.daily_xp - penalty),
                                  !.runs[r].penalty_xp = run.penalty_xp + penalty]
                   ELSE [D EXCEPT !.tasks[task].status = "failed"]
         IN  extract_run_active_tasks(D1, r, Tail(order))

extract_run_in_order(D, u, run_id, day, order) ==
    IF ~(run_id \in DOMAIN D.runs /\ D.runs[run_id].user_id = u)
    THEN Reply(D, "Run not found")
    ELSE IF D.runs[run_id].status # "active" THEN Reply(D, "Run already extracted")
    ELSE LET D1 == extract_run_active_tasks(D, run_id, order)
             run == D1.runs[run_id]
             user == D1.users[u]
             tasks == {t \in DOMAIN D1.tasks : D1.tasks[t].run_id = run_id}
             completed == {t \in tasks : D1.tasks[t].status = "completed"}
             failed == {t \in tasks : D1.tasks[t].status = "failed"}
             t_completed == [tier \in 1..3 |->
                                Cardinality({t \in completed : D1.tasks[t].tier = tier})]
             t_failed == [tier \in 1..3 |->
                             Cardinality({t \in failed : D1.tasks[t].tier = tier})]
             extraction ==
                 [user_id |-> u, run_id |-> run_id,
                  final_xp |-> run.daily_xp,
                  xp_before_penalties |-> run.daily_xp + run.penalty_xp,
                  penalty_xp |-> run.penalty_xp,
                  tasks_completed |-> Cardinality(completed),
                  tasks_failed |-> Cardinality(failed),
                  tasks_total |-> Cardinality(tasks),
                  total_focus_minutes |-> run.total_focus_minutes,
                  t1_completed |-> t_completed[1],
                  t2_completed |-> t_completed[2],
                  t3_completed |-> t_completed[3],
                  t1_failed |-> t_failed[1],
                  t2_failed |-> t_failed[2],
                  t3_failed |-> t_failed[3],
                  completed_with_timer |->
                      Cardinality({t \in completed : D1.tasks[t].use_timer}),
                  completed_without_timer |->
                      Cardinality({t \in completed : ~D1.tasks[t].use_timer})]
             current_streak ==
                 IF user.last_run_at # None
                 THEN IF user.last_run_at >= day - 1 THEN user.current_streak + 1 ELSE 1
                 ELSE 1
         IN  Reply([D1 EXCEPT !.extractions = Append(@, extraction),
                              !.runs[run_id].status = "extracted",
                              !.runs[run_id].extracted_at = day,
                              !.users[u] =
                                  [user EXCEPT
                                      !.total_xp = @ + run.daily_xp,
                                      !.total_extractions = @ + 1,
                                      !.total_tasks_completed = @ + Cardinality(completed),
                                      !.total_focus_minutes = @ + run.total_focus_minutes,
                                      !.current_streak = current_streak,
                                      !.best_streak = Max(@, current_streak),
                                      !.last_run_at = day]],
                   "ok")

extract_run(D, u, run_id, day) ==
    extract_run_in_order(D, u, run_id, day,
                         IF run_id \in DOMAIN D.runs
                         THEN Ascending(ActiveTasks(D, run_id)) ELSE <<>>)

---------------------------------------------------------------------------
(* app/api/endpoints/presets.py *)

(* The caller's saved templates and presets (created through the template *)
(* and preset endpoints before the runs of this model): the rows of       *)
(* task_templates, and for each preset its links sorted by `order'.        *)
TEMPLATES ==
    <<[user_id |-> 1, tier |-> 3, duration |-> 25, use_timer |-> TRUE, times_used |-> 0],
      [user_id |-> 1, tier |-> 2, duration |-> 10, use_timer |-> TRUE, times_used |-> 0],
      [user_id |-> 1, tier |-> 4, duration |-> 10, use_timer |-> FALSE, times_used |-> 0]>>
PRESETS ==
    <<[user_id |-> 1, links |-> <<1, 1, 1, 1, 2>>],
      [user_id |-> 1, links |-> <<3, 2>>]>>

(* Variant: a template is created only when energy is left over after it *)
PresetFits_Strict(run, config) == run.focus_energy > config.energy_cost

(* "if run.focus_energy < energy_cost: skip", negated *)
PresetFits(run, config) == ~(run.focus_energy < config.energy_cost)

(* Variant: the response counts the task but not its energy *)
CountCreated_NoCost(counts, config) == [counts EXCEPT !.tasks_created = @ + 1]

CountCreated(counts, config) ==
    [counts EXCEPT !.tasks_created = @ + 1,
                   !.total_energy_cost = @ + config.energy_cost]

RECURSIVE apply_links(_, _, _, _)
apply_links(D, r, links, counts) ==
    IF links = <<>> THEN [db |-> D, body |-> counts]
    ELSE LET id == Head(links)
             template == D.templates[id]
             run == D.runs[r]
             skip == [counts EXCEPT !.tasks_skipped = @ + 1]
         IN  IF template.tier \notin DOMAIN TIER_CONFIG
             THEN apply_links(D, r, Tail(links), skip)
             ELSE LET config == TIER_CONFIG[template.tier]
                      task_id == D.task_seq + 1
                  IN  IF ~PresetFits(run, config)
                      THEN apply_links(D, r, Tail(links), skip)
                      ELSE apply_links(
                              [D EXCEPT !.runs[r].focus_energy = @ - config.energy_cost,
                                        !.tasks = Put(@, task_id, NewTask(r, template, config)),
                                        !.task_seq = task_id,
                                        !.templates[id].times_used = @ + 1],
                              r, Tail(links), CountCreated(counts, config))

apply_preset(D, u, preset_id) ==
    LET found == ActiveRunsOf(D, u) IN
    IF ~(preset_id \in DOMAIN PRESETS /\ PRESETS[preset_id].user_id = u)
    THEN Reply(D, "Preset not found")
    ELSE IF Cardinality(found) > 1 THEN Reply(D, "MultipleResultsFound")
    ELSE IF found = {} THEN Reply(D, "No active run. Start a run first.")
    ELSE LET out == apply_links(D, CHOOSE x \in found : TRUE, PRESETS[preset_id].links,
                                [tasks_created |-> 0, tasks_skipped |-> 0,
                                 total_energy_cost |-> 0])
         IN  ReplyWith(out.db, "ok", out.body)

---------------------------------------------------------------------------
(* Requests served one at a time: app/database.py get_db commits what the *)
(* handler flushed, or rolls back when it raised.                         *)

Sessions == {1, 2}
Idle == [pc |-> "idle", req |-> <<>>, snap |-> <<>>, result |-> "none"]

EmptyDb ==
    [runs |-> <<>>, tasks |-> <<>>, task_seq |-> 0, extractions |-> <<>>,
     users |-> [u \in Users |-> NewUser], templates |-> TEMPLATES]

Init ==
    /\ db = EmptyDb
    /\ today = 0
    /\ sessions = [s \in Sessions |-> Idle]
    /\ base = EmptyDb

Serve(out) ==
    /\ db' = out.db
    /\ UNCHANGED <<today, sessions, base>>

StartNewRun(u) == Serve(start_new(db, u))
CreateTask(u, task_data) == Serve(create(db, u, task_data))
StartTask(u, task_id) == Serve(start(db, u, task_id))
CompleteTask(u, task_id) == Serve(complete(db, u, task_id))
FailTask(u, task_id) == Serve(fail(db, u, task_id))
DeleteTask(u, task_id) == Serve(delete(db, u, task_id))
ExtractRun(u, run_id) ==
    \E order \in Orders(IF run_id \in DOMAIN db.runs THEN ActiveTasks(db, run_id) ELSE {}) :
        Serve(extract_in_order(db, u, run_id, today, order))
ApplyPreset(u, preset_id) == Serve(apply_preset(db, u, preset_id))

TaskIdInputs == 1..(db.task_seq + 1)
RunIdInputs == 1..(Len(db.runs) + 1)
Callers == {1}

Next ==
    \/ \E u \in Callers :
          Len(start_new(db, u).db.runs) <= MaxRuns /\ StartNewRun(u)
    \/ \E u \in Callers, task_data \in TaskInputs :
          create(db, u, task_data).db.task_seq <= MaxTasks /\ CreateTask(u, task_data)
    \/ \E u \in Callers, task_id \in TaskIdInputs : StartTask(u, task_id)
    \/ \E u \in Callers, task_id \in TaskIdInputs : CompleteTask(u, task_id)
    \/ \E u \in Callers, task_id \in TaskIdInputs : FailTask(u, task_id)
    \/ \E u \in Callers, task_id \in TaskIdInputs : DeleteTask(u, task_id)
    \/ \E u \in Callers, run_id \in RunIdInputs : ExtractRun(u, run_id)
    \/ \E u \in Callers, preset_id \in DOMAIN PRESETS :
          apply_preset(db, u, preset_id).db.task_seq <= MaxTasks /\ ApplyPreset(u, preset_id)

Spec == Init /\ [][Next]_vars

---------------------------------------------------------------------------
(* Requests as values, for replaying a history and for requests in flight *)

NoData == [tier |-> 0, duration |-> 0, use_timer |-> FALSE]
Req(op, u, id, data) == [op |-> op, user |-> u, id |-> id, data |-> data]

Exec(D, req, day) ==
    CASE req.op = "start_new" -> start_new(D, req.user)
      [] req.op = "create" -> create(D, req.user, req.data)
      [] req.op = "start" -> start(D, req.user, req.id)
      [] req.op = "complete" -> complete(D, req.user, req.id)
      [] req.op = "fail" -> fail(D, req.user, req.id)
      [] req.op = "delete" -> delete(D, req.user, req.id)
      [] req.op = "extract" -> extract(D, req.user, req.id, day)
      [] req.op = "apply_preset" -> apply_preset(D, req.user, req.id)

(* The database after serving reqs in turn on day 0, starting from D *)
RECURSIVE Replay(_, _)
Replay(D, reqs) ==
    IF reqs = <<>> THEN D
    ELSE Replay(Exec(D, Head(reqs), 0).db, Tail(reqs))

T2Input == [tier |-> 2, duration |-> 10, use_timer |-> TRUE]
T3Input == [tier |-> 3, duration |-> 25, use_timer |-> TRUE]

---------------------------------------------------------------------------
(* The same handlers at the end of the run's energy.  The run starts with *)
(* k tier-3 tasks created, started and failed (15 energy each, not        *)
(* refunded), k = 0..3, and takes up to MaxHeavyTasks more tier-2 and     *)
(* tier-3 tasks, through create or a preset, until it is extracted.       *)

RECURSIVE Burn(_, _)
Burn(D, k) ==
    IF k = 0 THEN D
    ELSE LET id == D.task_seq + 1
         IN  Burn(Replay(D, <<Req("create", 1, 0, T3Input), Req("start", 1, id, NoData),
                              Req("fail", 1, id, NoData)>>),
                  k - 1)

InitEnergy ==
    /\ db \in {Burn(Replay(EmptyDb, <<Req("start_new", 1, 0, NoData)>>), k) :
                 k \in 0..(BASE_MAX_ENERGY \div TIER_CONFIG[3].energy_cost)}
    /\ today = 0
    /\ sessions = [s \in Sessions |-> Idle]
    /\ base = db

NextEnergy ==
    \/ \E u \in Callers, task_data \in HeavyInputs :
          /\ create(db, u, task_data).db.task_seq <= base.task_seq + MaxHeavyTasks
          /\ CreateTask(u, task_data)
    \/ \E u \in Callers, task_id \in TaskIdInputs : StartTask(u, task_id)
    \/ \E u \in Callers, task_id \in TaskIdInputs : CompleteTask(u, task_id)
    \/ \E u \in Callers, task_id \in TaskIdInputs : FailTask(u, task_id)
    \/ \E u \in Callers, task_id \in TaskIdInputs : DeleteTask(u, task_id)
    \/ \E u \in Callers, run_id \in RunIdInputs : ExtractRun(u, run_id)
    \/ \E u \in Callers, preset_id \in DOMAIN PRESETS :
          /\ apply_preset(db, u, preset_id).db.task_seq <= base.task_seq + MaxHeavyTasks
          /\ ApplyPreset(u, preset_id)

SpecEnergy == InitEnergy /\ [][NextEnergy]_vars

---------------------------------------------------------------------------
(* The same handlers on a run that has earned XP.  The run has completed  *)
(* two tier-1 tasks, one with the timer and a duration from               *)
(* TimedDurations (TaskCreate takes any integer, negative ones too), one  *)
(* without and a duration up to MaxDuration, so daily_xp runs through     *)
(* -15 .. 100 and beyond; it then holds two tier-3 tasks Active and a     *)
(* tier-2 task Pending.                                                    *)

TimedDurations == {-2, -1, 0, 1, 2, 3}
UntimedDurations == 0..MaxDuration

EarnedRun(timed, untimed) ==
    Replay(EmptyDb,
           <<Req("start_new", 1, 0, NoData),
             Req("create", 1, 0, [tier |-> 1, duration |-> timed, use_timer |-> TRUE]),
             Req("create", 1, 0, [tier |-> 1, duration |-> untimed, use_timer |-> FALSE]),
             Req("complete", 1, 1, NoData), Req("complete", 1, 2, NoData),
             Req("create", 1, 0, T3Input), Req("create", 1, 0, T3Input),
             Req("create", 1, 0, T2Input),
             Req("start", 1, 3, NoData), Req("start", 1, 4, NoData)>>)

InitPenalty ==
    /\ db \in {EarnedRun(timed, untimed) :
                 timed \in TimedDurations, untimed \in UntimedDurations}
    /\ today = 0
    /\ sessions = [s \in Sessions |-> Idle]
    /\ base = db

NextPenalty ==
    \/ \E u \in Callers, task_id \in TaskIdInputs : StartTask(u, task_id)
    \/ \E u \in Callers, task_id \in TaskIdInputs : CompleteTask(u, task_id)
    \/ \E u \in Callers, task_id \in TaskIdInputs : FailTask(u, task_id)
    \/ \E u \in Callers, task_id \in TaskIdInputs : DeleteTask(u, task_id)
    \/ \E u \in Callers, run_id \in RunIdInputs : ExtractRun(u, run_id)

SpecPenalty == InitPenalty /\ [][NextPenalty]_vars

---------------------------------------------------------------------------
(* Runs started and extracted over calendar days.  date.today() and the   *)
(* date of datetime.now(timezone.utc) are the same day number, today,     *)
(* which only moves forward; user 1 starts and extracts up to             *)
(* MaxStreakRuns runs between day 0 and day MaxDay.                        *)

NextDay ==
    /\ today < MaxDay
    /\ today' = today + 1
    /\ UNCHANGED <<db, sessions, base>>

NextStreakDays ==
    \/ \E u \in Callers :
          Len(start_new(db, u).db.runs) <= MaxStreakRuns /\ StartNewRun(u)
    \/ \E u \in Callers, run_id \in RunIdInputs : ExtractRun(u, run_id)
    \/ NextDay

SpecStreak == Init /\ [][NextStreakDays]_vars

---------------------------------------------------------------------------
(* calculate_xp over its inputs.  In a fresh run a task of any tier in    *)
(* 1..4 and any duration in 1..MaxXpDuration is created, with or without  *)
(* timer, and then its twin: the same tier and duration with the other    *)
(* timer setting.  create stores calculate_xp's result in xp_earned.      *)

XpInputs ==
    [tier : 1..4, duration : 1..MaxXpDuration, use_timer : BOOLEAN]

InitXp ==
    /\ db = Replay(EmptyDb, <<Req("start_new", 1, 0, NoData)>>)
    /\ today = 0
    /\ sessions = [s \in Sessions |-> Idle]
    /\ base = db

NextXp ==
    \/ \E task_data \in XpInputs :
          /\ db.tasks = <<>>
          /\ CreateTask(1, task_data)
    \/ \E task_data \in XpInputs :
          /\ DOMAIN db.tasks = {1}
          /\ task_data.tier = db.tasks[1].tier
          /\ task_data.duration = db.tasks[1].duration
          /\ task_data.use_timer # db.tasks[1].use_timer
          /\ CreateTask(1, task_data)

SpecXp == InitXp /\ [][NextXp]_vars

---------------------------------------------------------------------------
(* One request at a time, flush by flush, with storage faults.  get_db    *)
(* opens a session, the handler changes the session's rows, and only the  *)
(* commit after the handler returned makes them the database's; an        *)
(* exception, raised by the handler or by the storage at a flush or at    *)
(* the commit, rolls the session back.  snap holds the session's rows     *)
(* (work) and the number of the handler's steps done; base follows the    *)
(* requests that were answered "ok".                                       *)

FaultInputs == {[tier |-> 1, duration |-> 2, use_timer |-> FALSE], T3Input}

(* session.rollback(): the database keeps its committed rows *)
Rollback_KeepFlushed(committed, work) == work
Rollback(committed, work) == committed

(* extract statement by statement: the sweep, db.add(extraction), the     *)
(* run's status, the user's aggregates                                     *)
extract_steps(D, u, run_id, day) ==
    LET D1 == _auto_fail_active_tasks(D, run_id, Ascending(ActiveTasks(D, run_id)))
        completed == {t \in TasksOf(D1, run_id) : D1.tasks[t].status = "completed"}
        failed == {t \in TasksOf(D1, run_id) : D1.tasks[t].status = "failed"}
        D2 == [D1 EXCEPT !.extractions =
                            Append(@, _create_extraction(D1, u, run_id, completed, failed))]
        D3 == [D2 EXCEPT !.runs[run_id].status = "extracted",
                         !.runs[run_id].extracted_at = day]
        D4 == [D3 EXCEPT !.users[u] = _update_user_stats(D3.users[u], D3.runs[run_id],
                                                         Cardinality(completed), day)]
    IN  <<D1, D2, D3, D4>>

(* The session's rows after each step of the handler; none when it raises *)
Steps(D, req, day) ==
    IF Exec(D, req, day).result # "ok" THEN <<>>
    ELSE IF req.op = "extract" THEN extract_steps(D, req.user, req.id, day)
    ELSE <<Exec(D, req, day).db>>

FaultRequests ==
    {Req("start_new", 1, 0, NoData)}
    \cup {Req("create", 1, 0, data) : data \in FaultInputs}
    \cup {Req(op, 1, id, NoData) : op \in {"start", "complete", "fail", "delete"},
                                   id \in TaskIdInputs}
    \cup {Req("extract", 1, id, NoData) : id \in RunIdInputs}

BeginRequest(req) ==
    /\ sessions[1].pc \in {"idle", "done"}
    /\ req.op = "start_new" => db.extractions = <<>>
    /\ req.op = "create" => Exec(db, req, today).db.task_seq <= MaxFaultTasks
    /\ sessions' = [sessions EXCEPT ![1] = [pc |-> "working", req |-> req,
                                            snap |-> [work |-> db, done |-> 0],
                                            result |-> "none"]]
    /\ UNCHANGED <<db, today, base>>

FlushStep ==
    /\ sessions[1].pc = "working"
    /\ LET me == sessions[1]
           steps == Steps(db, me.req, today)
       IN  /\ me.snap.done < Len(steps)
           /\ sessions' = [sessions EXCEPT ![1].snap = [work |-> steps[me.snap.done + 1],
                                                        done |-> me.snap.done + 1]]
    /\ UNCHANGED <<db, today, base>>

Finished(req, result) == [pc |-> "done", req |-> req, snap |-> <<>>, result |-> result]

CommitRequest ==
    /\ sessions[1].pc = "working"
    /\ LET me == sessions[1]
           out == Exec(db, me.req, today)
       IN  /\ out.result = "ok"
           /\ me.snap.done = Len(Steps(db, me.req, today))
           /\ db' = me.snap.work
           /\ base' = out.db
           /\ sessions' = [sessions EXCEPT ![1] = Finished(me.req, "ok")]
    /\ UNCHANGED today

RaiseError ==
    /\ sessions[1].pc = "working"
    /\ LET me == sessions[1]
           out == Exec(db, me.req, today)
       IN  /\ out.result # "ok"
           /\ db' = Rollback(db, me.snap.work)
           /\ sessions' = [sessions EXCEPT ![1] = Finished(me.req, out.result)]
    /\ UNCHANGED <<today, base>>

StorageFault ==
    /\ sessions[1].pc = "working"
    /\ db' = Rollback(db, sessions[1].snap.work)
    /\ sessions' = [sessions EXCEPT ![1] = Finished(sessions[1].req, "fault")]
    /\ UNCHANGED <<today, base>>

NextFault ==
    \/ \E req \in FaultRequests : BeginRequest(req)
    \/ FlushStep
    \/ CommitRequest
    \/ RaiseError
    \/ StorageFault

SpecFault == Init /\ [][NextFault]_vars

---------------------------------------------------------------------------
(* Two users.  User 2 owns an Extracted run with its record and an Active *)
(* run with 12 XP, a Completed, an Active tier-3 and a Pending tier-2     *)
(* task; user 1 then sends every request, with its own ids and with those *)
(* of user 2's tasks and runs, through one run of its own and up to       *)
(* MaxTasks tasks.                                                         *)

OthersRows ==
    Replay(EmptyDb,
           <<Req("start_new", 2, 0, NoData), Req("create", 2, 0, T3Input),
             Req("complete", 2, 1, NoData), Req("extract", 2, 1, NoData),
             Req("start_new", 2, 0, NoData),
             Req("create", 2, 0, [tier |-> 1, duration |-> 2, use_timer |-> FALSE]),
             Req("complete", 2, 2, NoData),
             Req("create", 2, 0, T3Input), Req("start", 2, 3, NoData),
             Req("create", 2, 0, T2Input)>>)

InitUsers ==
    /\ db = OthersRows
    /\ today = 0
    /\ sessions = [s \in Sessions |-> Idle]
    /\ base = db

NextUsers ==
    \/ \E u \in Callers :
          db.users[u].total_extractions = 0 /\ StartNewRun(u)
    \/ \E u \in Callers, task_data \in TaskInputs :
          /\ create(db, u, task_data).db.task_seq <= base.task_seq + MaxTasks
          /\ CreateTask(u, task_data)
    \/ \E u \in Callers, task_id \in TaskIdInputs : StartTask(u, task_id)
    \/ \E u \in Callers, task_id \in TaskIdInputs : CompleteTask(u, task_id)
    \/ \E u \in Callers, task_id \in TaskIdInputs : FailTask(u, task_id)
    \/ \E u \in Callers, task_id \in TaskIdInputs : DeleteTask(u, task_id)
    \/ \E u \in Callers, run_id \in RunIdInputs : ExtractRun(u, run_id)

SpecUsers == InitUsers /\ [][NextUsers]_vars

---------------------------------------------------------------------------
(* Overlapping requests.  Each request runs in its own session and        *)
(* transaction (get_db): the handler loads the rows it reads into the     *)
(* session, changes the loaded objects, and flush() writes back the       *)
(* attributes it changed as values (UPDATE ... SET daily_xp = 65), inserts *)
(* the new rows under fresh ids and deletes the deleted ones; commit       *)
(* follows.  A session s is idle, has read (holding the rows as it read   *)
(* them, snap) or is done (holding what it returned).                      *)

(* The columns of a loaded row whose value the handler changed *)
MergeRow(cur, snap, out) ==
    [f \in DOMAIN cur |-> IF out[f] # snap[f] THEN out[f] ELSE cur[f]]

Changed(snap, out) ==
    {t \in DOMAIN snap.tasks \cap DOMAIN out.tasks : out.tasks[t] # snap.tasks[t]}
Deleted(snap, out) == DOMAIN snap.tasks \ DOMAIN out.tasks
Inserted(snap, out) == Ascending(DOMAIN out.tasks \ DOMAIN snap.tasks)

FlushRuns(cur, snap, out) ==
    [r \in DOMAIN cur.runs |->
        IF r \in DOMAIN snap.runs
        THEN MergeRow(cur.runs[r], snap.runs[r], out.runs[r])
        ELSE cur.runs[r]]
    \o SubSeq(out.runs, Len(snap.runs) + 1, Len(out.runs))

FlushTasks(cur, snap, out) ==
    LET new == Inserted(snap, out)
        kept == DOMAIN cur.tasks \ Deleted(snap, out)
        fresh == {cur.task_seq + i : i \in 1..Len(new)}
    IN  [t \in kept \cup fresh |->
            IF t \in fresh THEN out.tasks[new[t - cur.task_seq]]
            ELSE IF t \in Changed(snap, out)
                 THEN MergeRow(cur.tasks[t], snap.tasks[t], out.tasks[t])
                 ELSE cur.tasks[t]]

(* The insert of an Active run conflicts only under a unique constraint *)
InsertConflict(cur, snap, out) ==
    /\ ActiveRunUnique
    /\ \E i \in (Len(snap.runs) + 1)..Len(out.runs) :
          ActiveRunsOf(cur, out.runs[i].user_id) # {}

Flush(cur, snap, out) ==
    IF InsertConflict(cur, snap, out) THEN Reply(cur, "Active run already exists")
    ELSE IF ~(Changed(snap, out) \subseteq DOMAIN cur.tasks) THEN Reply(cur, "StaleDataError")
    ELSE Reply([runs |-> FlushRuns(cur, snap, out),
                tasks |-> FlushTasks(cur, snap, out),
                task_seq |-> cur.task_seq + Len(Inserted(snap, out)),
                extractions |-> cur.extractions
                                \o SubSeq(out.extractions, Len(snap.extractions) + 1,
                                          Len(out.extractions)),
                users |-> [u \in DOMAIN cur.users |->
                              MergeRow(cur.users[u], snap.users[u], out.users[u])],
                templates |-> [t \in DOMAIN cur.templates |->
                                  MergeRow(cur.templates[t], snap.templates[t],
                                           out.templates[t])]],
               "ok")

(* The state two overlapping requests start from: user 1's run with task  *)
(* 1 (tier 2) Pending, task 2 (tier 3) Active and task 3 (tier 3)         *)
(* Completed, or the empty database.                                       *)
BusyRun ==
    Replay(EmptyDb,
           <<Req("start_new", 1, 0, NoData), Req("create", 1, 0, T2Input),
             Req("create", 1, 0, T3Input), Req("start", 1, 2, NoData),
             Req("create", 1, 0, T3Input), Req("complete", 1, 3, NoData)>>)

ConcRequests ==
    {Req("start_new", 1, 0, NoData), Req("create", 1, 0, T2Input),
     Req("complete", 1, 1, NoData), Req("complete", 1, 2, NoData),
     Req("fail", 1, 2, NoData), Req("delete", 1, 1, NoData),
     Req("extract", 1, 1, NoData)}

InitConc ==
    /\ db \in {EmptyDb, BusyRun}
    /\ today = 0
    /\ sessions = [s \in Sessions |-> Idle]
    /\ base = db

(* The request's reads *)
Begin(s, req) ==
    /\ sessions[s].pc = "idle"
    /\ sessions' = [sessions EXCEPT ![s] = [pc |-> "read", req |-> req, snap |-> db,
                                            result |-> "none"]]
    /\ UNCHANGED <<db, today, base>>

(* The rest of the handler, flush and commit; rollback when it raised *)
Commit(s) ==
    /\ sessions[s].pc = "read"
    /\ LET me == sessions[s]
           out == Exec(me.snap, me.req, today)
           done == IF out.result = "ok" THEN Flush(db, me.snap, out.db) ELSE Reply(db, out.result)
       IN  /\ db' = done.db
           /\ sessions' = [sessions EXCEPT ![s] = [pc |-> "done", req |-> me.req,
                                                   snap |-> <<>>, result |-> done.result]]
    /\ UNCHANGED <<today, base>>

NextConc ==
    \/ \E s \in Sessions, req \in ConcRequests : Begin(s, req)
    \/ \E s \in Sessions : Commit(s)

SpecConc == InitConc /\ [][NextConc]_vars

---------------------------------------------------------------------------
(* Claims *)

Extractions(r) == {i \in DOMAIN db.extractions : db.extractions[i].run_id = r}
AllDone == \A s \in Sessions : sessions[s].pc = "done"
Serial(D, first, second) == Exec(Exec(D, first, 0).db, second, 0).db

(* C1: under any interleaving of concurrent start-new-run requests of one *)
(* user, the user has at most one Active run in every state, and when the *)
(* user had none exactly one request succeeds and the others are declined *)
(* with "Active run already exists".                                       *)
C1_OneActiveRunUnderConcurrentStarts ==
    /\ \A u \in Users : Cardinality(ActiveRunsOf(db, u)) <= 1
    /\ (/\ AllDone
        /\ \A s \in Sessions : sessions[s].req.op = "start_new"
        /\ ActiveRunsOf(base, 1) = {})
       => /\ Cardinality({s \in Sessions : sessions[s].result = "ok"}) = 1
          /\ \A s \in Sessions :
                sessions[s].result \in {"ok", "Active run already exists"}


(* C2: after any sequence of task create, start, complete, fail, delete,  *)
(* preset application and extraction, every run has                        *)
(* 0 <= focus_energy <= max_energy.                                        *)
C2_EnergyWithinBounds ==
    \A r \in DOMAIN db.runs :
        /\ 0 <= db.runs[r].focus_energy
        /\ db.runs[r].focus_energy <= db.runs[r].max_energy

(* C2's case: a run spent down to 0 energy that has gone through a refund *)
(* (a Completed task) and a failure, then extracted.                       *)
C2_Witness ==
    \E r \in DOMAIN db.runs :
        /\ db.runs[r].focus_energy = 0
        /\ db.runs[r].status = "extracted"
        /\ \E t \in TasksOf(db, r) : db.tasks[t].status = "completed"
        /\ \E t \in TasksOf(db, r) : db.tasks[t].status = "failed"

(* C3: once a run is Extracted none of its fields changes under any later *)
(* operation of its owner.                                                 *)
C3_ExtractedRunImmutable ==
    [][\A r \in DOMAIN db.runs :
          db.runs[r].status = "extracted" => db'.runs[r] = db.runs[r]]_vars

(* C4: every run has at most one Extraction record, and exactly one if    *)
(* and only if its status is Extracted, also when two extract requests    *)
(* for the same Active run overlap; at most one of those succeeds.        *)
C4_OneExtractionPerRun ==
    /\ \A r \in DOMAIN db.runs :
          /\ Cardinality(Extractions(r)) <= 1
          /\ Cardinality(Extractions(r)) = 1 <=> db.runs[r].status = "extracted"
    /\ (/\ AllDone
        /\ \A s \in Sessions : sessions[s].req.op = "extract")
       => Cardinality({s \in Sessions : sessions[s].result = "ok"}) <= 1

(* C5: two overlapping task operations (create, complete, fail, delete)   *)
(* or extract requests on the same run end in a state that one of the two *)
(* serial executions of the same requests also reaches.                    *)
C5_OverlapIsSerializable ==
    (/\ AllDone
     /\ \A s \in Sessions :
           sessions[s].req.op \in {"create", "complete", "fail", "delete", "extract"})
    => db \in {Serial(base, sessions[1].req, sessions[2].req),
               Serial(base, sessions[2].req, sessions[1].req)}

(* The payloads a create request can carry *)
CreateInputs == TaskInputs \cup HeavyInputs

(* C6: served one at a time, start_new for a user succeeds if and only if *)
(* the user has no Active run; with one it is declined with "Active run   *)
(* already exists" and creates nothing; a success appends one Active run  *)
(* of the user and touches nothing else; Extracted runs never block.      *)
C6_StartNewIffNoActiveRun ==
    \A u \in Users :
        LET out == start_new(db, u)
            hasActive == \E r \in DOMAIN db.runs :
                            db.runs[r].user_id = u /\ db.runs[r].status = "active"
        IN  /\ out.result = "ok" <=> ~hasActive
            /\ hasActive => out.result = "Active run already exists" /\ out.db = db
            /\ ~hasActive =>
                 /\ Len(out.db.runs) = Len(db.runs) + 1
                 /\ SubSeq(out.db.runs, 1, Len(db.runs)) = db.runs
                 /\ out.db.runs[Len(out.db.runs)].user_id = u
                 /\ out.db.runs[Len(out.db.runs)].status = "active"
                 /\ out.db = [db EXCEPT !.runs = out.db.runs]

(* C6's case: the user's first run is Extracted, a second start has       *)
(* succeeded, and a third is now declined.                                 *)
C6_Witness ==
    /\ Len(db.runs) = 2
    /\ db.runs[1].user_id = 1 /\ db.runs[1].status = "extracted"
    /\ db.runs[2].user_id = 1 /\ db.runs[2].status = "active"
    /\ start_new(db, 1).result = "Active run already exists"

(* C7: a successful create for tier t lowers the Active run's energy by   *)
(* exactly 0, 5 or 15 (t = 1, 2, 3), adds one Pending task carrying that  *)
(* cost and xp(t, duration, use_timer), and leaves daily_xp,               *)
(* total_focus_minutes, penalty_xp, every other run and every other task  *)
(* unchanged.                                                              *)
C7_CreateChargesAtCreation ==
    \A u \in Users, data \in CreateInputs :
        LET out == create(db, u, data) IN
        out.result = "ok" =>
            \E r \in DOMAIN db.runs :
                LET cost == CASE data.tier = 1 -> 0
                              [] data.tier = 2 -> 5
                              [] data.tier = 3 -> 15
                              [] OTHER -> -1
                    added == DOMAIN out.db.tasks \ DOMAIN db.tasks
                IN  /\ db.runs[r].user_id = u /\ db.runs[r].status = "active"
                    /\ cost >= 0 /\ db.runs[r].focus_energy >= cost
                    /\ out.db.runs =
                          [db.runs EXCEPT ![r].focus_energy = db.runs[r].focus_energy - cost]
                    /\ Cardinality(added) = 1
                    /\ \A t \in added :
                          /\ out.db.tasks[t].run_id = r
                          /\ out.db.tasks[t].status = "pending"
                          /\ out.db.tasks[t].energy_cost = cost
                          /\ out.db.tasks[t].xp_earned =
                                calculate_xp(data.tier, data.duration, data.use_timer)
                          /\ out.db.tasks[t].tier = data.tier
                          /\ out.db.tasks[t].duration = data.duration
                    /\ \A t \in DOMAIN db.tasks :
                          t \in DOMAIN out.db.tasks /\ out.db.tasks[t] = db.tasks[t]

(* C7's case: a tier-2 and a tier-3 task created on a fresh run, both     *)
(* Pending, 20 energy paid and nothing earned yet.                         *)
C7_Witness ==
    \E r \in DOMAIN db.runs :
        /\ db.runs[r].status = "active"
        /\ db.runs[r].focus_energy = 30 /\ db.runs[r].daily_xp = 0
        /\ \E t \in TasksOf(db, r) :
              /\ db.tasks[t].status = "pending" /\ db.tasks[t].energy_cost = 5
              /\ db.tasks[t].xp_earned = 65
        /\ \E t \in TasksOf(db, r) :
              /\ db.tasks[t].status = "pending" /\ db.tasks[t].energy_cost = 15
              /\ db.tasks[t].xp_earned = 175

(* C8: create is declined, leaving the database as it was, exactly when   *)
(* the user has no Active run, or the tier is not 1, 2 or 3, or the run's *)
(* energy is strictly below the tier's cost ("Not enough energy"); with   *)
(* energy equal to the cost it succeeds and leaves 0.                      *)
C8_CreateDeclinedExactlyWhen ==
    \A u \in Users, data \in CreateInputs :
        LET out == create(db, u, data)
            active == {r \in DOMAIN db.runs :
                          db.runs[r].user_id = u /\ db.runs[r].status = "active"}
            cost == CASE data.tier = 1 -> 0
                      [] data.tier = 2 -> 5
                      [] data.tier = 3 -> 15
                      [] OTHER -> -1
            poor == \A r \in active : db.runs[r].focus_energy < cost
        IN  /\ out.result # "ok" <=> (active = {} \/ cost < 0 \/ poor)
            /\ out.result # "ok" => out.db = db
            /\ (active # {} /\ cost >= 0 /\ poor) => out.result = "Not enough energy"
            /\ (active # {} /\ cost < 0) => out.result = "Invalid tier"
            /\ active = {} => out.result = "No active run"
            /\ \A r \in active :
                  (cost >= 0 /\ db.runs[r].focus_energy = cost) =>
                      /\ out.result = "ok"
                      /\ out.db.runs[r].focus_energy = 0

(* C8's case: the run's energy has been spent down to exactly 0 by a      *)
(* create whose cost equalled what was left, and a tier-2 create is now   *)
(* declined for lack of energy.                                            *)
C8_Witness ==
    \E r \in DOMAIN db.runs :
        /\ db.runs[r].status = "active" /\ db.runs[r].focus_energy = 0
        /\ \E t \in TasksOf(db, r) :
              db.tasks[t].status = "pending" /\ db.tasks[t].energy_cost = 5
        /\ create(db, db.runs[r].user_id, T2Input).result = "Not enough energy"

(* C9: completing a Pending or Active task of an Active run adds the      *)
(* task's stored xp_earned to daily_xp, sets focus_energy to               *)
(* min(max_energy, focus_energy + energy_cost), adds the duration to      *)
(* total_focus_minutes, makes the task Completed, and changes nothing     *)
(* else: penalty_xp, the other tasks, the other runs.                      *)
C9_CompleteCreditsAndRefunds ==
    \A u \in Users, t \in DOMAIN db.tasks :
        LET task == db.tasks[t]
            r == task.run_id
            run == db.runs[r]
            out == complete(db, u, t)
            energy == IF run.focus_energy + task.energy_cost > run.max_energy
                      THEN run.max_energy
                      ELSE run.focus_energy + task.energy_cost
        IN  (/\ run.user_id = u /\ run.status = "active"
             /\ task.status \in {"pending", "active"})
            => /\ out.result = "ok"
               /\ out.db.runs =
                     [db.runs EXCEPT ![r].daily_xp = run.daily_xp + task.xp_earned,
                                     ![r].focus_energy = energy,
                                     ![r].total_focus_minutes =
                                         run.total_focus_minutes + task.duration]
               /\ out.db.tasks = [db.tasks EXCEPT ![t].status = "completed"]
               /\ out.db = [db EXCEPT !.runs = out.db.runs, !.tasks = out.db.tasks]

(* C9's case: a tier-3 task and a tier-2 task both completed in a run     *)
(* that is still Active: 240 XP, 35 minutes, energy back at 50.           *)
C9_Witness ==
    \E r \in DOMAIN db.runs :
        /\ db.runs[r].status = "active"
        /\ db.runs[r].daily_xp = 240 /\ db.runs[r].total_focus_minutes = 35
        /\ db.runs[r].focus_energy = 50 /\ db.runs[r].penalty_xp = 0
        /\ \A t \in TasksOf(db, r) : db.tasks[t].status = "completed"
        /\ Cardinality(TasksOf(db, r)) = 2

(* Every request on a task or a run that a user can send in this state *)
RequestsNow ==
    {Req(op, u, id, NoData) :
        op \in {"start", "complete", "fail", "delete", "extract"},
        u \in Users, id \in TaskIdInputs \cup RunIdInputs}

(* C10: complete is declined, leaving the database as it was, when the    *)
(* task is already Completed or Failed or when its run is not Active; and *)
(* no request turns a task of an Extracted run that is not Completed into *)
(* a Completed one.                                                        *)
C10_CompleteDeclined ==
    /\ \A req \in RequestsNow, t \in DOMAIN db.tasks :
          LET after == Exec(db, req, today).db.tasks IN
          (db.runs[db.tasks[t].run_id].status = "extracted"
           /\ db.tasks[t].status # "completed" /\ t \in DOMAIN after)
          => after[t].status # "completed"
    /\ \A u \in Users, t \in DOMAIN db.tasks :
        LET task == db.tasks[t]
            run == db.runs[task.run_id]
            out == complete(db, u, t)
        IN  (task.status \in {"completed", "failed"} \/ run.status # "active")
            => /\ out.result # "ok"
               /\ out.db = db
               /\ run.user_id = u =>
                     out.result = IF task.status \in {"completed", "failed"}
                                  THEN "Task already finished"
                                  ELSE "Run is not active"

(* C10's case: a task left Pending in a run that has been extracted, on   *)
(* which complete is declined because of the run.                          *)
C10_Witness ==
    \E t \in DOMAIN db.tasks :
        /\ db.tasks[t].status = "pending"
        /\ db.runs[db.tasks[t].run_id].status = "extracted"
        /\ complete(db, 1, t).result = "Run is not active"

(* C11: fail succeeds only for the caller's Active task of a tier that    *)
(* can fail (2 or 3), and does succeed there; on a tier-1 task in any     *)
(* status and on a Pending, Completed or Failed task of any tier it is    *)
(* declined, and a declined fail leaves the database as it was.           *)
C11_FailOnlyActiveCanFail ==
    \A u \in Users, t \in DOMAIN db.tasks :
        LET task == db.tasks[t]
            mine == db.runs[task.run_id].user_id = u
            out == fail(db, u, t)
        IN  /\ out.result = "ok" <=>
                  (mine /\ task.status = "active" /\ task.tier \in {2, 3})
            /\ out.result # "ok" => out.db = db
            /\ (mine /\ task.tier = 1) => out.result = "This task cannot fail"
            /\ (mine /\ task.tier \in {2, 3} /\ task.status # "active")
                  => out.result = "Task not active"

(* C11's case: a tier-1 task that is Active, on which fail is declined,   *)
(* next to a tier-3 task that an explicit fail has made Failed.           *)
C11_Witness ==
    \E r \in DOMAIN db.runs :
        /\ db.runs[r].status = "active"
        /\ \E t \in TasksOf(db, r) :
              /\ db.tasks[t].tier = 1 /\ db.tasks[t].status = "active"
              /\ fail(db, db.runs[r].user_id, t).result = "This task cannot fail"
        /\ \E t \in TasksOf(db, r) :
              db.tasks[t].tier = 3 /\ db.tasks[t].status = "failed"

(* C12: a successful fail of a tier-3 Active task on a run with daily XP  *)
(* X >= 0 sets daily_xp to X - floor(X/10) and adds floor(X/10) to        *)
(* penalty_xp (100 gives 90 and +10); a second tier-3 failure right after *)
(* takes floor of a tenth of what the first left; a fail of a tier-2 task *)
(* changes neither; in both cases the energy and every other column of    *)
(* the run stay and the task becomes Failed.                               *)
C12_FailPenalty ==
    \A t \in DOMAIN db.tasks :
        LET task == db.tasks[t]
            r == task.run_id
            X == db.runs[r].daily_xp
            P == db.runs[r].penalty_xp
            Y == X - (X \div 10)
            out == fail(db, db.runs[r].user_id, t)
        IN  (task.status = "active" /\ task.tier \in {2, 3}) =>
            /\ out.result = "ok"
            /\ out.db.tasks = [db.tasks EXCEPT ![t].status = "failed"]
            /\ task.tier = 2 => out.db.runs = db.runs
            /\ (task.tier = 3 /\ X >= 0) =>
                  /\ out.db.runs = [db.runs EXCEPT ![r].daily_xp = Y,
                                                   ![r].penalty_xp = P + (X \div 10)]
                  /\ X = 100 => /\ out.db.runs[r].daily_xp = 90
                                /\ out.db.runs[r].penalty_xp = P + 10
                  /\ \A t2 \in DOMAIN db.tasks \ {t} :
                        (/\ db.tasks[t2].run_id = r /\ db.tasks[t2].tier = 3
                         /\ db.tasks[t2].status = "active")
                        => LET out2 == fail(out.db, db.runs[r].user_id, t2) IN
                           /\ out2.result = "ok"
                           /\ out2.db.runs[r].daily_xp = Y - (Y \div 10)
                           /\ out2.db.runs[r].penalty_xp =
                                 P + (X \div 10) + (Y \div 10)

(* C12's case: a run that stood at 100 XP and has had both its tier-3     *)
(* tasks failed one after the other: 100 -> 90 -> 81, 19 XP of penalty.   *)
C12_Witness ==
    \E r \in DOMAIN db.runs :
        /\ db.runs[r].status = "active"
        /\ db.runs[r].daily_xp = 81 /\ db.runs[r].penalty_xp = 19
        /\ Cardinality({t \in TasksOf(db, r) :
                           db.tasks[t].tier = 3 /\ db.tasks[t].status = "failed"}) = 2

(* C13: deleting a Pending task removes it and sets the run's energy to   *)
(* min(max_energy, focus_energy + energy_cost), leaving every other      *)
(* column of the run and every other task; a delete of an Active,         *)
(* Completed or Failed task is declined and changes nothing.              *)
C13_DeletePendingOnly ==
    \A u \in Users, t \in DOMAIN db.tasks :
        LET task == db.tasks[t]
            r == task.run_id
            run == db.runs[r]
            out == delete(db, u, t)
            energy == IF run.focus_energy + task.energy_cost > run.max_energy
                      THEN run.max_energy
                      ELSE run.focus_energy + task.energy_cost
        IN  /\ (run.user_id = u /\ task.status = "pending") =>
                 /\ out.result = "ok"
                 /\ DOMAIN out.db.tasks = DOMAIN db.tasks \ {t}
                 /\ \A t2 \in DOMAIN out.db.tasks : out.db.tasks[t2] = db.tasks[t2]
                 /\ out.db.runs = [db.runs EXCEPT ![r].focus_energy = energy]
                 /\ out.db = [db EXCEPT !.runs = out.db.runs, !.tasks = out.db.tasks]
            /\ task.status \in {"active", "completed", "failed"} =>
                 /\ out.result # "ok"
                 /\ out.db = db
                 /\ run.user_id = u => out.result = "Can only delete pending tasks"

(* C13's case: one of two created tasks has been deleted again (its id   *)
(* used up, its energy back), and the other, a tier-3 task, is            *)
(* Active, on which delete is declined.                                   *)
C13_Witness ==
    \E r \in DOMAIN db.runs :
        /\ db.runs[r].status = "active"
        /\ db.runs[r].focus_energy = 35
        /\ db.task_seq = 2 /\ Cardinality(DOMAIN db.tasks) = 1
        /\ \E t \in TasksOf(db, r) :
              /\ db.tasks[t].status = "active" /\ db.tasks[t].energy_cost = 15
              /\ delete(db, db.runs[r].user_id, t).result = "Can only delete pending tasks"

(* C14: start makes a Pending task Active and is declined for a task in   *)
(* any other status; successful or declined, it changes no column of any  *)
(* run and no other task.                                                  *)
C14_StartPendingOnly ==
    \A u \in Users, t \in DOMAIN db.tasks :
        LET task == db.tasks[t]
            mine == db.runs[task.run_id].user_id = u
            out == start(db, u, t)
        IN  /\ out.db.runs = db.runs
            /\ (mine /\ task.status = "pending") =>
                 /\ out.result = "ok"
                 /\ out.db = [db EXCEPT !.tasks[t].status = "active"]
            /\ task.status # "pending" =>
                 /\ out.result # "ok"
                 /\ out.db = db
                 /\ mine => out.result = "Task already started"

(* C14's case: a started task (Active, its run's counters as they were    *)
(* after the creates) next to a Completed one, on which start is          *)
(* declined.                                                               *)
C14_Witness ==
    \E r \in DOMAIN db.runs :
        /\ db.runs[r].status = "active"
        /\ \E t \in TasksOf(db, r) : db.tasks[t].status = "active"
        /\ \E t \in TasksOf(db, r) :
              /\ db.tasks[t].status = "completed"
              /\ start(db, db.runs[r].user_id, t).result = "Task already started"

(* C15: in every step a task keeps its status or moves Pending -> Active, *)
(* Pending -> Completed, Active -> Completed or Active -> Failed; no task *)
(* returns to Pending, a Completed or Failed task never changes status,   *)
(* only a Pending task is ever removed, and a new task starts Pending.    *)
C15_StatusMovesForward ==
    [][/\ \A t \in DOMAIN db.tasks \cap DOMAIN db'.tasks :
             \/ db'.tasks[t].status = db.tasks[t].status
             \/ /\ db.tasks[t].status = "pending"
                /\ db'.tasks[t].status \in {"active", "completed"}
             \/ /\ db.tasks[t].status = "active"
                /\ db'.tasks[t].status \in {"completed", "failed"}
       /\ \A t \in DOMAIN db.tasks \ DOMAIN db'.tasks :
             db.tasks[t].status = "pending"
       /\ \A t \in DOMAIN db'.tasks \ DOMAIN db.tasks :
             db'.tasks[t].status = "pending" /\ t > db.task_seq]_vars

(* C15's case: an Extracted run holding a Completed task and a task that  *)
(* went Pending -> Active -> Failed, after which requests still arrive.   *)
C15_Witness ==
    \E r \in DOMAIN db.runs :
        /\ db.runs[r].status = "extracted"
        /\ \E t \in TasksOf(db, r) : db.tasks[t].status = "completed"
        /\ \E t \in TasksOf(db, r) : db.tasks[t].status = "failed"

(* What n penalties of floor(x/10) leave of x, one after the other *)
RECURSIVE FloorSweep(_, _)
FloorSweep(x, n) == IF n = 0 THEN x ELSE FloorSweep(x - (x \div 10), n - 1)

(* C16: a successful extract turns every Active task of the run into      *)
(* Failed, for each tier-3 one reducing daily_xp by floor(daily_xp/10)    *)
(* and adding the same amount to penalty_xp before the summary is         *)
(* computed, and leaves every Pending, Completed and Failed task in its   *)
(* status; right after it no task of the run is Active.  Stated for every *)
(* order in which the sweep can visit the tasks.                           *)
C16_SweepFailsActiveTasks ==
    \A r \in DOMAIN db.runs :
        \A order \in Orders(ActiveTasks(db, r)) :
            LET run == db.runs[r]
                out == extract_in_order(db, run.user_id, r, today, order)
                swept == {t \in TasksOf(db, r) : db.tasks[t].status = "active"}
                n == Cardinality({t \in swept : db.tasks[t].tier = 3})
                left == FloorSweep(run.daily_xp, n)
            IN  run.status = "active" =>
                /\ out.result = "ok"
                /\ DOMAIN out.db.tasks = DOMAIN db.tasks
                /\ \A t \in DOMAIN db.tasks :
                      out.db.tasks[t] =
                         IF t \in swept THEN [db.tasks[t] EXCEPT !.status = "failed"]
                         ELSE db.tasks[t]
                /\ out.db.runs[r].daily_xp = left
                /\ out.db.runs[r].penalty_xp = run.penalty_xp + (run.daily_xp - left)
                /\ out.db.extractions[Len(out.db.extractions)].final_xp = left
                /\ out.db.extractions[Len(out.db.extractions)].tasks_failed =
                      Cardinality({t \in TasksOf(db, r) :
                                      db.tasks[t].status \in {"active", "failed"}})

(* The results extract can give on run r for caller u, one for each order *)
(* in which the sweep can visit the Active tasks                           *)
Extracts(u, r) ==
    {extract_in_order(db, u, r, today, order) :
        order \in Orders(IF r \in DOMAIN db.runs THEN ActiveTasks(db, r) ELSE {})}

Last(seq) == seq[Len(seq)]

(* C17: in every Extraction record the per-tier completed counts add up   *)
(* to tasks_completed, the per-tier failed counts to tasks_failed, and    *)
(* completed_with_timer + completed_without_timer to tasks_completed; and *)
(* in the record extract creates, tasks_completed + tasks_failed is the   *)
(* number of the run's tasks that are not Pending, i.e. tasks_total minus *)
(* the number of Pending tasks.                                            *)
C17_ExtractionCountsAddUp ==
    /\ \A i \in DOMAIN db.extractions :
          LET e == db.extractions[i] IN
          /\ e.t1_completed + e.t2_completed + e.t3_completed = e.tasks_completed
          /\ e.t1_failed + e.t2_failed + e.t3_failed = e.tasks_failed
          /\ e.completed_with_timer + e.completed_without_timer = e.tasks_completed
    /\ \A r \in DOMAIN db.runs : \A out \in Extracts(db.runs[r].user_id, r) :
          out.result = "ok" =>
             LET e == Last(out.db.extractions)
                 pending == {t \in TasksOf(db, r) : db.tasks[t].status = "pending"}
             IN  /\ e.t1_completed + e.t2_completed + e.t3_completed = e.tasks_completed
                 /\ e.t1_failed + e.t2_failed + e.t3_failed = e.tasks_failed
                 /\ e.completed_with_timer + e.completed_without_timer = e.tasks_completed
                 /\ e.tasks_total = Cardinality(TasksOf(db, r))
                 /\ e.tasks_completed + e.tasks_failed = e.tasks_total - Cardinality(pending)
                 /\ e.tasks_completed + e.tasks_failed =
                       Cardinality({t \in TasksOf(out.db, r) : out.db.tasks[t].status # "pending"})

(* A record of two completed tier-1 tasks, one with and one without       *)
(* timer, two swept tier-3 tasks and a tier-2 task left Pending           *)
C17_Witness ==
    \E i \in DOMAIN db.extractions :
        LET e == db.extractions[i] IN
        /\ e.tasks_completed = 2 /\ e.t1_completed = 2
        /\ e.completed_with_timer = 1 /\ e.completed_without_timer = 1
        /\ e.tasks_failed = 2 /\ e.t3_failed = 2
        /\ e.tasks_total = 5

(* Every request a user can send in this state *)
AnyRequestNow ==
    RequestsNow
    \cup {Req("create", u, 0, data) : u \in Users, data \in CreateInputs}
    \cup {Req("start_new", u, 0, NoData) : u \in Users}
    \cup {Req("apply_preset", u, id, NoData) : u \in Users, id \in DOMAIN PRESETS}

(* C18: the Extraction record a successful extract creates has final_xp   *)
(* equal to the run's daily_xp after the sweep, penalty_xp equal to the   *)
(* run's cumulative penalty_xp, xp_before_penalties = final_xp +          *)
(* penalty_xp, tasks_failed counting the swept tasks with the tasks that  *)
(* had Failed before, and total_focus_minutes equal to the run's; and no  *)
(* request changes or removes an existing Extraction record.              *)
C18_ExtractionSnapshot ==
    /\ \A r \in DOMAIN db.runs : \A out \in Extracts(db.runs[r].user_id, r) :
          out.result = "ok" =>
             LET e == Last(out.db.extractions)
                 after == out.db.runs[r]
             IN  /\ Len(out.db.extractions) = Len(db.extractions) + 1
                 /\ e.run_id = r /\ e.user_id = db.runs[r].user_id
                 /\ e.final_xp = after.daily_xp
                 /\ e.penalty_xp = after.penalty_xp
                 /\ e.xp_before_penalties = e.final_xp + e.penalty_xp
                 /\ e.tasks_failed =
                       Cardinality({t \in TasksOf(db, r) :
                                       db.tasks[t].status \in {"active", "failed"}})
                 /\ e.total_focus_minutes = db.runs[r].total_focus_minutes
                 /\ after.total_focus_minutes = db.runs[r].total_focus_minutes
    /\ \A req \in AnyRequestNow :
          LET later == Exec(db, req, today).db.extractions IN
          /\ Len(later) >= Len(db.extractions)
          /\ \A i \in DOMAIN db.extractions : later[i] = db.extractions[i]

(* A record written after one explicit tier-3 failure and the sweep of    *)
(* the other tier-3 task, on a run that had earned 100 XP: 100 -> 90 ->   *)
(* 81; the run's tier-2 task has left Pending since the extraction        *)
C18_Witness ==
    \E i \in DOMAIN db.extractions :
        LET e == db.extractions[i] IN
        /\ e.final_xp = 81 /\ e.penalty_xp = 19 /\ e.xp_before_penalties = 100
        /\ e.tasks_failed = 2
        /\ db.runs[e.run_id].status = "extracted"
        /\ \E t \in TasksOf(db, e.run_id) :
              db.tasks[t].tier = 2 /\ db.tasks[t].status # "pending"

(* C19: extract is declined with "Run not found" when no run with the id  *)
(* belongs to the caller and with "Run already extracted" when the run is *)
(* not Active; a declined extract leaves the whole database as it was.    *)
C19_ExtractDeclined ==
    \A u \in Users : \A r \in RunIdInputs : \A out \in Extracts(u, r) :
        LET found == r \in DOMAIN db.runs /\ db.runs[r].user_id = u IN
        /\ ~found => out.result = "Run not found"
        /\ (found /\ db.runs[r].status # "active") => out.result = "Run already extracted"
        /\ (found /\ db.runs[r].status = "active") => out.result = "ok"
        /\ out.result # "ok" => out.db = db

(* An Extracted run and an Active run with an Active task side by side:   *)
(* the first is declined as extracted, the second to any other user       *)
C19_Witness ==
    /\ \E r \in DOMAIN db.runs :
          /\ db.runs[r].status = "extracted"
          /\ extract(db, db.runs[r].user_id, r, today).result = "Run already extracted"
    /\ \E r \in DOMAIN db.runs :
          /\ db.runs[r].status = "active"
          /\ ActiveTasks(db, r) # {}
          /\ \E u \in Users : extract(db, u, r, today).result = "Run not found"

(* C20: a successful extraction adds the run's final daily_xp to the      *)
(* user's total_xp, 1 to total_extractions, the number of Completed tasks *)
(* of the run to total_tasks_completed and the run's total_focus_minutes  *)
(* to the user's total_focus_minutes; no other user's row changes.        *)
C20_ExtractionAddsToAggregates ==
    \A r \in DOMAIN db.runs : \A out \in Extracts(db.runs[r].user_id, r) :
        out.result = "ok" =>
           LET u == db.runs[r].user_id
               before == db.users[u]
               after == out.db.users[u]
               done == {t \in TasksOf(db, r) : db.tasks[t].status = "completed"}
           IN  /\ after.total_xp = before.total_xp + out.db.runs[r].daily_xp
               /\ after.total_extractions = before.total_extractions + 1
               /\ after.total_tasks_completed = before.total_tasks_completed + Cardinality(done)
               /\ after.total_focus_minutes =
                     before.total_focus_minutes + db.runs[r].total_focus_minutes
               /\ \A v \in DOMAIN db.users \ {u} : out.db.users[v] = db.users[v]

(* Two runs extracted in turn, each with XP, focus minutes and a          *)
(* Completed task: the second extraction added to the first one's totals  *)
C20_Witness ==
    /\ Len(db.runs) = 2
    /\ \A r \in DOMAIN db.runs :
          /\ db.runs[r].status = "extracted" /\ db.runs[r].user_id = 1
          /\ db.runs[r].daily_xp > 0 /\ db.runs[r].total_focus_minutes > 0
    /\ db.users[1].total_extractions = 2
    /\ db.users[1].total_xp = db.runs[1].daily_xp + db.runs[2].daily_xp
    /\ db.users[1].total_tasks_completed >= 2
    /\ db.users[1].total_focus_minutes > 0

(* The days on which user u extracted a run *)
ExtractionDays(u) ==
    {db.runs[r].extracted_at :
        r \in {x \in DOMAIN db.runs : db.runs[x].user_id = u /\ db.runs[x].status = "extracted"}}

(* C21: a successful extraction on day D sets the current streak to 1 when  *)
(* the user has no previous extraction, adds exactly 1 to it when the     *)
(* previous extraction was on day D or D-1, sets it to 1 when that was on *)
(* day D-2 or earlier, and in every case records D as the last run.       *)
C21_StreakOnExtraction ==
    \A r \in DOMAIN db.runs : \A out \in Extracts(db.runs[r].user_id, r) :
        out.result = "ok" =>
           LET before == db.users[db.runs[r].user_id]
               after == out.db.users[db.runs[r].user_id]
           IN  /\ before.last_run_at = None => after.current_streak = 1
               /\ (before.last_run_at # None /\ before.last_run_at \in {today, today - 1})
                     => after.current_streak = before.current_streak + 1
               /\ (before.last_run_at # None /\ before.last_run_at <= today - 2)
                     => after.current_streak = 1
               /\ after.last_run_at = today

(* Extractions on two days in a row took the streak to 2, and one made   *)
(* after a missed day put it back to 1                                     *)
C21_Witness ==
    /\ db.users[1].total_extractions = 3
    /\ db.users[1].best_streak = 2
    /\ db.users[1].current_streak = 1
    /\ db.users[1].last_run_at = today
    /\ Cardinality(ExtractionDays(1)) = 3

(* The number of consecutive days in S that end on the latest day of S *)
ConsecutiveDays(S) ==
    LET latest == CHOOSE d \in S : \A e \in S : e <= d
    IN  CHOOSE k \in 1..Cardinality(S) :
           /\ \A i \in 0..(k - 1) : (latest - i) \in S
           /\ (latest - k) \notin S

(* C22: after any sequence of runs and extractions over calendar days the *)
(* user's current streak is the number of consecutive calendar days,      *)
(* ending on the day of the latest extraction, on each of which the user  *)
(* made at least one extraction.                                           *)
C22_StreakCountsDays ==
    \A u \in Users :
        IF ExtractionDays(u) = {} THEN db.users[u].current_streak = 0
        ELSE db.users[u].current_streak = ConsecutiveDays(ExtractionDays(u))

(* The positions from i on of the templates of links that fit, one after *)
(* the other, into energy: known tier and cost within what is left        *)
RECURSIVE CreatedAt(_, _, _)
CreatedAt(links, energy, i) ==
    IF i > Len(links) THEN {}
    ELSE LET tier == TEMPLATES[links[i]].tier IN
         IF tier \in DOMAIN TIER_CONFIG /\ TIER_CONFIG[tier].energy_cost <= energy
         THEN {i} \cup CreatedAt(links, energy - TIER_CONFIG[tier].energy_cost, i + 1)
         ELSE CreatedAt(links, energy, i + 1)

RECURSIVE SumCost(_, _)
SumCost(tasks, S) ==
    IF S = {} THEN 0
    ELSE LET t == CHOOSE x \in S : TRUE
         IN  tasks[t].energy_cost + SumCost(tasks, S \ {t})

(* The applications of a preset that find the preset and one Active run *)
Applications ==
    {a \in [user : Users, preset : DOMAIN PRESETS, run : DOMAIN db.runs] :
        /\ PRESETS[a.preset].user_id = a.user
        /\ ActiveRunsOf(db, a.user) = {a.run}}

C24_PresetReportAddsUp ==
    \A a \in Applications :
        LET out == apply_preset(db, a.user, a.preset)
            added == TasksOf(out.db, a.run) \ TasksOf(db, a.run)
        IN  /\ out.result = "ok"
            /\ out.body.tasks_created + out.body.tasks_skipped = Len(PRESETS[a.preset].links)
            /\ out.body.tasks_created = Cardinality(added)
            /\ DOMAIN out.db.tasks \ DOMAIN db.tasks = added
            /\ out.body.total_energy_cost = SumCost(out.db.tasks, added)
            /\ out.body.total_energy_cost =
                  db.runs[a.run].focus_energy - out.db.runs[a.run].focus_energy

(* Preset 1 applied to a run with 5 energy: four templates skipped, the   *)
(* tier-2 one created for the last 5 energy                                *)
C24_Witness ==
    /\ db.templates[1].times_used = 0 /\ db.templates[2].times_used = 1
    /\ base.runs[1].focus_energy = 5 /\ db.runs[1].focus_energy = 0
    /\ db.task_seq = base.task_seq + 1
    /\ db.tasks[db.task_seq].tier = 2 /\ db.tasks[db.task_seq].status = "pending"
    /\ apply_preset(base, 1, 1).body =
          [tasks_created |-> 1, tasks_skipped |-> 4, total_energy_cost |-> 5]

(* C27: for every tier 1..3 and every duration d > 0 up to MaxXpDuration, *)
(* xp(t, d, true) >= xp(t, d, false); so of two tasks of the same tier    *)
(* and duration the one with the timer never has the smaller xp_earned.   *)
C27_TimerNeverLowersXp ==
    /\ \A t \in 1..3 : \A d \in 1..MaxXpDuration :
          calculate_xp(t, d, TRUE) >= calculate_xp(t, d, FALSE)
    /\ \A a, b \in DOMAIN db.tasks :
          (/\ db.tasks[a].tier = db.tasks[b].tier
           /\ db.tasks[a].duration = db.tasks[b].duration
           /\ db.tasks[a].use_timer /\ ~db.tasks[b].use_timer)
             => db.tasks[a].xp_earned >= db.tasks[b].xp_earned

(* Twin tier-3 tasks of 35 minutes: 244 XP with the timer, 196 without *)
C27_Witness ==
    \E a, b \in DOMAIN db.tasks :
        /\ db.tasks[a].tier = 3 /\ db.tasks[b].tier = 3
        /\ db.tasks[a].duration = 35 /\ db.tasks[b].duration = 35
        /\ db.tasks[a].use_timer /\ ~db.tasks[b].use_timer
        /\ db.tasks[a].xp_earned = 244 /\ db.tasks[b].xp_earned = 196

(* The integer reference: floor(base * d / reference) with the timer and  *)
(* floor(4 * base * d / (5 * reference)) without, bases 15/65/175 and     *)
(* reference durations 2/10/25 minutes, 0 outside tiers 1..3              *)
XpReference(t, d, used_timer) ==
    LET base_xp == CASE t = 1 -> 15 [] t = 2 -> 65 [] t = 3 -> 175 [] OTHER -> 0
        reference == CASE t = 1 -> 2 [] t = 2 -> 10 [] t = 3 -> 25 [] OTHER -> 1
    IN  IF used_timer THEN (base_xp * d) \div reference
        ELSE (4 * base_xp * d) \div (5 * reference)

(* C28: calculate_xp(t, d, used_timer) equals the integer reference for   *)
(* every tier 1..3 and every duration d > 0 up to MaxXpDuration and is 0  *)
(* for every tier outside the table; stated on the xp_earned of every     *)
(* task create has stored and on the tiers create declines.               *)
C28_XpEqualsReference ==
    /\ \A t \in DOMAIN db.tasks :
          db.tasks[t].xp_earned =
             XpReference(db.tasks[t].tier, db.tasks[t].duration, db.tasks[t].use_timer)
    /\ \A t \in {0, 4, 5} : \A d \in 1..MaxXpDuration : \A used_timer \in BOOLEAN :
          calculate_xp(t, d, used_timer) = 0

(* C25: end to end, for a user without an Active run: start_new gives a   *)
(* run with focus_energy 50 and max_energy 50; creating a tier-2 task     *)
(* takes the energy to 45; completing it returns the energy to 50 and     *)
(* makes daily_xp xp(2, duration, timer); extract then writes an          *)
(* Extraction with tasks_completed = 1 and final_xp = xp(2, duration,     *)
(* timer), marks the run Extracted and adds 1 to total_extractions.       *)
C25_EndToEnd ==
    \A u \in Callers : \A d \in 1..MaxDuration : \A timer \in BOOLEAN :
        ActiveRunsOf(db, u) = {} =>
           LET s1 == start_new(db, u)
               r == Len(s1.db.runs)
               s2 == create(s1.db, u, [tier |-> 2, duration |-> d, use_timer |-> timer])
               t == s2.db.task_seq
               s3 == complete(s2.db, u, t)
               s4 == extract(s3.db, u, r, today)
               e == Last(s4.db.extractions)
               xp == XpReference(2, d, timer)
           IN  /\ s1.result = "ok" /\ r = Len(db.runs) + 1
               /\ s1.db.runs[r].focus_energy = 50 /\ s1.db.runs[r].max_energy = 50
               /\ s2.result = "ok" /\ s2.db.runs[r].focus_energy = 45
               /\ s2.db.tasks[t].tier = 2 /\ s2.db.tasks[t].run_id = r
               /\ s3.result = "ok" /\ s3.db.runs[r].focus_energy = 50
               /\ s3.db.runs[r].daily_xp = xp
               /\ s4.result = "ok"
               /\ Len(s4.db.extractions) = Len(db.extractions) + 1
               /\ e.run_id = r /\ e.tasks_completed = 1 /\ e.final_xp = xp
               /\ s4.db.runs[r].status = "extracted"
               /\ s4.db.users[u].total_extractions = db.users[u].total_extractions + 1

(* The trace has been walked with a 10-minute tier-2 task with timer:     *)
(* 65 XP, one task, energy back at 50, one extraction                      *)
C25_Witness ==
    /\ Len(db.runs) = 1 /\ db.runs[1].status = "extracted"
    /\ db.runs[1].focus_energy = 50 /\ db.runs[1].daily_xp = 65
    /\ DOMAIN db.tasks = {1}
    /\ db.tasks[1].tier = 2 /\ db.tasks[1].status = "completed"
    /\ \A id \in DOMAIN db.templates : db.templates[id].times_used = 0
    /\ Len(db.extractions) = 1
    /\ db.extractions[1].tasks_completed = 1 /\ db.extractions[1].final_xp = 65
    /\ db.users[1].total_extractions = 1

(* The records of the extractions of run r, by position *)
RecordsOf(D, r) == {i \in DOMAIN D.extractions : D.extractions[i].run_id = r}

(* C26: every request is all-or-nothing.  The database is always what the *)
(* requests answered "ok" made of it, so a request that ended in a domain *)
(* error or a storage fault, or is still under way, has changed no run,   *)
(* task, Extraction record or user; and no state shows part of an         *)
(* extraction: a run is Extracted exactly when it has its one record, a   *)
(* tier-1 task (which only the sweep can fail) is Failed only in such a   *)
(* run, and the user's total_extractions and total_xp are those of the    *)
(* records.                                                                *)
C26_RequestsAllOrNothing ==
    /\ db = base
    /\ \A r \in DOMAIN db.runs :
          /\ db.runs[r].status = "extracted" <=> RecordsOf(db, r) # {}
          /\ Cardinality(RecordsOf(db, r)) <= 1
    /\ \A t \in DOMAIN db.tasks :
          (db.tasks[t].tier = 1 /\ db.tasks[t].status = "failed")
             => db.runs[db.tasks[t].run_id].status = "extracted"
    /\ \A u \in Users :
          LET mine == {i \in DOMAIN db.extractions : db.extractions[i].user_id = u} IN
          /\ db.users[u].total_extractions = Cardinality(mine)
          /\ mine = {} => db.users[u].total_xp = 0
          /\ \A i \in mine : Cardinality(mine) = 1 =>
                db.users[u].total_xp = db.extractions[i].final_xp

(* A storage fault has ended an extract whose run held an Active tier-1   *)
(* task: the task is still Active, the run Active and without record      *)
C26_Witness ==
    /\ sessions[1].pc = "done" /\ sessions[1].result = "fault"
    /\ sessions[1].req.op = "extract"
    /\ \E r \in DOMAIN db.runs :
          /\ sessions[1].req.id = r
          /\ db.runs[r].status = "active"
          /\ \E t \in TasksOf(db, r) : db.tasks[t].tier = 1 /\ db.tasks[t].status = "active"
    /\ db.extractions = <<>>
    /\ db.users[1].total_extractions = 0

(* What the handler of endpoints/tasks.py makes of a task request *)
TasksEndpoint(D, req) ==
    CASE req.op = "create" -> create_task(D, req.user, req.data)
      [] req.op = "start" -> start_task(D, req.user, req.id)
      [] req.op = "complete" -> complete_task(D, req.user, req.id)
      [] req.op = "fail" -> fail_task(D, req.user, req.id)
      [] req.op = "delete" -> delete_task(D, req.user, req.id)

TaskRequestsNow ==
    {req \in RequestsNow : req.op # "extract"}
    \cup {Req("create", u, 0, data) : u \in Users, data \in CreateInputs}

(* C29: for every state and every create, start, complete, fail or delete *)
(* request the handler of endpoints/tasks.py accepts exactly when the     *)
(* TaskService operation does, and then leaves the same tasks with the    *)
(* same status and xp_earned and the same daily_xp, focus_energy,         *)
(* total_focus_minutes and penalty_xp on every run.                        *)
C29_EndpointsMatchService ==
    \A req \in TaskRequestsNow :
        LET service == Exec(db, req, today)
            handler == TasksEndpoint(db, req)
        IN  /\ (handler.result = "ok") <=> (service.result = "ok")
            /\ service.result = "ok" =>
                  /\ DOMAIN handler.db.tasks = DOMAIN service.db.tasks
                  /\ \A t \in DOMAIN service.db.tasks :
                        /\ handler.db.tasks[t].status = service.db.tasks[t].status
                        /\ handler.db.tasks[t].xp_earned = service.db.tasks[t].xp_earned
                  /\ \A r \in DOMAIN service.db.runs :
                        /\ handler.db.runs[r].daily_xp = service.db.runs[r].daily_xp
                        /\ handler.db.runs[r].focus_energy = service.db.runs[r].focus_energy
                        /\ handler.db.runs[r].total_focus_minutes =
                              service.db.runs[r].total_focus_minutes
                        /\ handler.db.runs[r].penalty_xp = service.db.runs[r].penalty_xp

(* The rows of user u in D: its runs, their tasks, its records, its own row *)
RowsOf(D, u) ==
    LET runs == {r \in DOMAIN D.runs : D.runs[r].user_id = u} IN
    [runs |-> [r \in runs |-> D.runs[r]],
     tasks |-> [t \in {x \in DOMAIN D.tasks : D.tasks[x].run_id \in runs} |-> D.tasks[t]],
     extractions |-> {D.extractions[i] :
                        i \in {x \in DOMAIN D.extractions : D.extractions[x].user_id = u}},
     user |-> D.users[u]]

(* C30: for two distinct users A and B, every start, complete, fail,      *)
(* delete or extract by A that names a task or run of B is declined as    *)
(* not found, and nothing A sends changes a run, task, Extraction record, *)
(* aggregate or streak of B: B's rows stay as they were before A's        *)
(* requests, and no request A can send next changes them.                 *)
C30_UsersAreIsolated ==
    \A A \in Users : \A B \in Users \ {A} :
        /\ A \in Callers => RowsOf(db, B) = RowsOf(base, B)
        /\ \A req \in RequestsNow \cup {Req("create", A, 0, data) : data \in CreateInputs}
                       \cup {Req("start_new", A, 0, NoData)} :
              req.user = A =>
                 LET out == Exec(db, req, today) IN
                 /\ RowsOf(out.db, B) = RowsOf(db, B)
                 /\ (req.op \in {"start", "complete", "fail", "delete"}
                     /\ req.id \in DOMAIN RowsOf(db, B).tasks)
                       => out.result = "Task not found"
                 /\ (req.op = "extract" /\ req.id \in DOMAIN RowsOf(db, B).runs)
                       => out.result = "Run not found"

(* User 1 has a run of its own, extracted with a swept tier-3 task, next  *)
(* to user 2's rows                                                        *)
C30_Witness ==
    /\ RowsOf(db, 2).tasks # <<>>
    /\ \E r \in DOMAIN RowsOf(db, 1).runs :
          /\ db.runs[r].status = "extracted"
          /\ \E t \in TasksOf(db, r) : db.tasks[t].tier = 3 /\ db.tasks[t].status = "failed"
    /\ db.users[1].total_extractions = 1
    /\ \E t \in DOMAIN RowsOf(db, 2).tasks : db.tasks[t].status = "active"

(* C31: a newly started run has daily_xp 0, focus_energy = max_energy =   *)
(* 50, total_focus_minutes 0, penalty_xp 0, status Active and no tasks.   *)
C31_NewRunIsFresh ==
    \A u \in Users :
        LET out == start_new(db, u)
            r == Len(out.db.runs)
        IN  out.result = "ok" =>
               /\ r = Len(db.runs) + 1
               /\ out.db.runs[r].user_id = u
               /\ out.db.runs[r].daily_xp = 0
               /\ out.db.runs[r].focus_energy = 50 /\ out.db.runs[r].max_energy = 50
               /\ out.db.runs[r].total_focus_minutes = 0
               /\ out.db.runs[r].penalty_xp = 0
               /\ out.db.runs[r].status = "active"
               /\ TasksOf(out.db, r) = {}
               /\ \A x \in DOMAIN db.runs : out.db.runs[x] = db.runs[x]

(* A second run, just started, next to an Extracted first run that earned *)
(* XP and has tasks                                                        *)
C31_Witness ==
    /\ Len(db.runs) = 2
    /\ db.runs[1].status = "extracted" /\ db.runs[1].daily_xp > 0
    /\ TasksOf(db, 1) # {}
    /\ db.runs[2] = [user_id |-> 1, status |-> "active", daily_xp |-> 0,
                     focus_energy |-> 50, max_energy |-> 50,
                     total_focus_minutes |-> 0, penalty_xp |-> 0, extracted_at |-> None]
    /\ TasksOf(db, 2) = {}

(* C32: in every reachable state no task of a run whose status is         *)
(* Extracted is Active; a start on a task that extraction left Pending    *)
(* does not make it Active.                                                *)
C32_NoActiveTaskInExtractedRun ==
    \A t \in DOMAIN db.tasks :
        db.runs[db.tasks[t].run_id].status = "extracted" => db.tasks[t].status # "active"

(* The energy the tasks of run r hold: the costs of its Pending, Active   *)
(* and Failed tasks                                                        *)
EnergyHeld(D, r) ==
    SumCost(D.tasks, {t \in TasksOf(D, r) : D.tasks[t].status \in {"pending", "active", "failed"}})

(* C33: energy is conserved.  On every Active run focus_energy is         *)
(* max_energy minus the sum of energy_cost over its Pending, Active and   *)
(* Failed tasks; so the cap in complete and delete never cuts a refund:   *)
(* each one adds exactly the task's cost.                                  *)
C33_EnergyConserved ==
    /\ \A r \in DOMAIN db.runs :
          db.runs[r].status = "active" =>
             db.runs[r].focus_energy = db.runs[r].max_energy - EnergyHeld(db, r)
    /\ \A req \in RequestsNow :
          (/\ req.op \in {"complete", "delete"}
           /\ req.id \in DOMAIN db.tasks
           /\ db.runs[db.tasks[req.id].run_id].status = "active"
           /\ Exec(db, req, today).result = "ok")
             => LET r == db.tasks[req.id].run_id IN
                Exec(db, req, today).db.runs[r].focus_energy =
                   db.runs[r].focus_energy + db.tasks[req.id].energy_cost

(* An Active run with a Failed tier-3 task, a Completed and a Pending     *)
(* tier-2 task: 50 - 15 - 5 = 30                                           *)
C33_Witness ==
    \E r \in DOMAIN db.runs :
        /\ db.runs[r].status = "active" /\ db.runs[r].focus_energy = 30
        /\ \E t \in TasksOf(db, r) : db.tasks[t].tier = 3 /\ db.tasks[t].status = "failed"
        /\ \E t \in TasksOf(db, r) : db.tasks[t].tier = 2 /\ db.tasks[t].status = "completed"
        /\ \E t \in TasksOf(db, r) : db.tasks[t].tier = 2 /\ db.tasks[t].status = "pending"

RECURSIVE SumXp(_, _)
SumXp(tasks, S) ==
    IF S = {} THEN 0
    ELSE LET t == CHOOSE x \in S : TRUE
         IN  tasks[t].xp_earned + SumXp(tasks, S \ {t})

CompletedOf(D, r) == {t \in TasksOf(D, r) : D.tasks[t].status = "completed"}

(* C34: XP is fully accounted for.  On every run daily_xp + penalty_xp is *)
(* the sum of xp_earned over the run's Completed tasks, every Extraction  *)
(* record's xp_before_penalties is that sum for its run, and a penalty    *)
(* never exceeds the daily_xp it is taken from, so the floor at 0 in fail *)
(* and in the sweep never changes the result.                              *)
C34_XpAccountedFor ==
    /\ \A r \in DOMAIN db.runs :
          db.runs[r].daily_xp + db.runs[r].penalty_xp = SumXp(db.tasks, CompletedOf(db, r))
    /\ \A i \in DOMAIN db.extractions :
          db.extractions[i].xp_before_penalties =
             SumXp(db.tasks, CompletedOf(db, db.extractions[i].run_id))
    /\ \A req \in RequestsNow :
          LET out == Exec(db, req, today) IN
          (req.op = "fail" /\ out.result = "ok") =>
             LET r == db.tasks[req.id].run_id
                 penalty == out.db.runs[r].penalty_xp - db.runs[r].penalty_xp
             IN  /\ penalty <= db.runs[r].daily_xp
                 /\ out.db.runs[r].daily_xp = db.runs[r].daily_xp - penalty

(* C35: whatever tasks create accepts, a run's daily_xp, penalty_xp and   *)
(* total_focus_minutes are never negative, and neither are a user's       *)
(* total_xp and total_focus_minutes.                                       *)
C35_TotalsNeverNegative ==
    /\ \A r \in DOMAIN db.runs :
          /\ db.runs[r].daily_xp >= 0
          /\ db.runs[r].penalty_xp >= 0
          /\ db.runs[r].total_focus_minutes >= 0
    /\ \A u \in Users :
          /\ db.users[u].total_xp >= 0
          /\ db.users[u].total_focus_minutes >= 0

RecordsOfUser(D, u) == {i \in DOMAIN D.extractions : D.extractions[i].user_id = u}

RECURSIVE SumField(_, _, _)
SumField(records, S, field) ==
    IF S = {} THEN 0
    ELSE LET i == CHOOSE x \in S : TRUE
         IN  records[i][field] + SumField(records, S \ {i}, field)

(* C36: a user's aggregates are the totals of the user's Extraction       *)
(* records.  total_extractions is the number of the user's records and    *)
(* the number of the user's Extracted runs; total_xp, total_tasks_        *)
(* completed and total_focus_minutes are the sums of final_xp,            *)
(* tasks_completed and total_focus_minutes over those records.            *)
C36_AggregatesMatchRecords ==
    \A u \in Users :
       LET mine == RecordsOfUser(db, u)
           user == db.users[u]
       IN  /\ user.total_extractions = Cardinality(mine)
           /\ user.total_extractions =
                 Cardinality({r \in DOMAIN db.runs : /\ db.runs[r].user_id = u
                                                     /\ db.runs[r].status = "extracted"})
           /\ user.total_xp = SumField(db.extractions, mine, "final_xp")
           /\ user.total_tasks_completed = SumField(db.extractions, mine, "tasks_completed")
           /\ user.total_focus_minutes = SumField(db.extractions, mine, "total_focus_minutes")

(* What the handler of endpoints/runs.py makes of a run request when     *)
(* run.tasks lists the Active tasks in the given order                    *)
RunsEndpoint(D, req, day, order) ==
    CASE req.op = "start_new" -> start_new_run(D, req.user)
      [] req.op = "extract" -> extract_run_in_order(D, req.user, req.id, day, order)

RunsService(D, req, day, order) ==
    CASE req.op = "start_new" -> start_new(D, req.user)
      [] req.op = "extract" -> extract_in_order(D, req.user, req.id, day, order)

RunRequestsNow ==
    {Req("start_new", u, 0, NoData) : u \in Users}
    \cup {Req("extract", u, r, NoData) : u \in Users, r \in RunIdInputs}

(* C37: for every state and every start-new or extract request the        *)
(* handler of endpoints/runs.py accepts exactly when the RunService       *)
(* operation does, declines with the same message, and leaves the same    *)
(* runs, tasks, Extraction records and user rows.                          *)
C37_RunEndpointsMatchService ==
    \A req \in RunRequestsNow :
       \A order \in Orders(IF req.op = "extract" /\ req.id \in DOMAIN db.runs
                           THEN ActiveTasks(db, req.id) ELSE {}) :
          LET service == RunsService(db, req, today, order)
              handler == RunsEndpoint(db, req, today, order)
          IN  /\ handler.result = service.result
              /\ handler.db.runs = service.db.runs
              /\ handler.db.tasks = service.db.tasks
              /\ handler.db.extractions = service.db.extractions
              /\ handler.db.users = service.db.users

(* A run with XP and two Active tier-3 tasks: the handler's extract is    *)
(* accepted, sweeps both with a penalty and writes the record, while its  *)
(* start-new is declined for the owner and accepted for the other user    *)
C37_Witness ==
    \E r \in DOMAIN db.runs :
       LET out == extract_run(db, 1, r, today) IN
       /\ Cardinality({t \in ActiveTasks(db, r) : db.tasks[t].tier = 3}) = 2
       /\ db.runs[r].daily_xp >= 100
       /\ out.result = "ok"
       /\ out.db.runs[r].penalty_xp >= 19
       /\ out.db.extractions[Len(out.db.extractions)].tasks_failed >= 2
       /\ out.db.users[1].total_extractions = 1
       /\ start_new_run(db, 1).result = "Active run already exists"
       /\ start_new_run(db, 2).result = "ok"

(* C38: best_streak >= current_streak >= 0 in every state; no request    *)
(* lowers best_streak; and a successful extraction leaves current_streak  *)
(* >= 1 and best_streak the larger of the previous best_streak and the    *)
(* new current_streak.                                                     *)
C38_StreakBounds ==
    /\ \A u \in Users :
          /\ db.users[u].current_streak >= 0
          /\ db.users[u].best_streak >= db.users[u].current_streak
    /\ \A req \in AnyRequestNow :
          LET out == Exec(db, req, today)
              before == db.users[req.user]
              after == out.db.users[req.user]
          IN  /\ \A u \in Users : out.db.users[u].best_streak >= db.users[u].best_streak
              /\ (req.op = "extract" /\ out.result = "ok") =>
                    /\ after.current_streak >= 1
                    /\ after.best_streak =
                          (IF before.best_streak > after.current_streak
                           THEN before.best_streak ELSE after.current_streak)

(* After a streak of two the user missed a day and extracted again: the   *)
(* streak is back at 1 and best_streak still 2                             *)
C38_Witness ==
    /\ db.users[1].total_extractions = 3
    /\ db.users[1].current_streak = 1
    /\ db.users[1].best_streak = 2
    /\ db.users[1].last_run_at = today

(* C39: only a successful extraction changes a user's aggregates and     *)
(* streak fields.  start_new, create, start, complete, fail, delete and   *)
(* preset application, accepted or declined, and a declined extract leave *)
(* every user row as it was; so do the task handlers of endpoints/tasks.py *)
(* and the start-new handler of endpoints/runs.py.  The requests are      *)
(* those of the callers of the specification.                              *)
C39_OnlyExtractionChangesUser ==
    /\ \A req \in AnyRequestNow :
          req.user \in Callers =>
             LET out == Exec(db, req, today) IN
             (req.op # "extract" \/ out.result # "ok") => out.db.users = db.users
    /\ \A req \in TaskRequestsNow :
          req.user \in Callers => TasksEndpoint(db, req).db.users = db.users
    /\ \A u \in Callers : start_new_run(db, u).db.users = db.users

(* After an extraction that earned XP a task the run had left Pending    *)
(* was started: the user's aggregates and streak are still those the      *)
(* extraction wrote                                                        *)
C39_Witness ==
    /\ Len(db.extractions) = 1
    /\ \E r \in DOMAIN db.runs :
          /\ db.runs[r].status = "extracted"
          /\ \E t \in TasksOf(db, r) : db.tasks[t].status = "active"
          /\ db.extractions[1].run_id = r
    /\ db.extractions[1].final_xp > 0
    /\ db.users[1].total_extractions = 1
    /\ db.users[1].total_xp = db.extractions[1].final_xp
    /\ db.users[1].total_tasks_completed = db.extractions[1].tasks_completed
    /\ db.users[1].current_streak = 1 /\ db.users[1].best_streak = 1

(* C40: the result of extraction does not depend on the order in which   *)
(* the sweep visits the run's Active tasks: for any two orders the answer, *)
(* the run's daily_xp and penalty_xp, every task's status, the Extraction  *)
(* record and the user row are the same.                                   *)
C40_SweepOrderIrrelevant ==
    \A u \in Callers, r \in DOMAIN db.runs :
       LET orders == Orders(ActiveTasks(db, r)) IN
       \A o1 \in orders, o2 \in orders :
          LET a == extract_in_order(db, u, r, today, o1)
              b == extract_in_order(db, u, r, today, o2)
          IN  /\ a.result = b.result
              /\ a.db.runs[r].daily_xp = b.db.runs[r].daily_xp
              /\ a.db.runs[r].penalty_xp = b.db.runs[r].penalty_xp
              /\ \A t \in DOMAIN db.tasks : a.db.tasks[t].status = b.db.tasks[t].status
              /\ a.db.extractions = b.db.extractions
              /\ a.db.users = b.db.users

(* A run with XP whose two tier-3 tasks and tier-2 task are all Active:   *)
(* the sweep can visit them in six orders and takes a penalty twice        *)
C40_Witness ==
    \E r \in DOMAIN db.runs :
       /\ db.runs[r].status = "active" /\ db.runs[r].daily_xp >= 10
       /\ Cardinality({t \in ActiveTasks(db, r) : db.tasks[t].tier = 3}) = 2
       /\ Cardinality({t \in ActiveTasks(db, r) : db.tasks[t].tier = 2}) = 1
       /\ Cardinality(Orders(ActiveTasks(db, r))) = 6
       /\ \A out \in Extracts(1, r) :
             /\ out.result = "ok"
             /\ out.db.runs[r].penalty_xp > 0
             /\ Last(out.db.extractions).tasks_failed = 3

====
